---- MODULE Spec2Model ----
(***************************************************************************)
(* Allocation model with reallocation between SKUs of one class            *)
(* (modelo_otimizacao_com_realocacao.py).                                  *)
(*                                                                         *)
(* Quantities are whole units and money is in whole currency units.  The   *)
(* linear program the builder produces has integer data and only box and   *)
(* per-class sum constraints, so its vertices are integral: the optimal    *)
(* value over the integer grid is the optimal value of the LP, and every   *)
(* linear (in)equality that holds on all integral optimal points holds on  *)
(* the whole optimal face.  Prices in the price table are multiples of 12  *)
(* so that every mean over at most four entries is exact.                  *)
(***************************************************************************)
EXTENDS Integers, Sequences, FiniteSets, TLC

\* ----------------------------------------------------------------- bounds
MaxProd == 2
MaxQty  == 2
MaxSolves == 2

\* peso_recompensa = -200.0: the per-unit reward of the cost objective
PesoRecompensa == 200

\* NaN of pandas (a missing price); every comparison with it is false
NaN == -1

VARIABLES
    config,              \* self.config['modelo']
    arquivos,            \* the input files of config['paths']
    dados,               \* self.dados
    solver,              \* self.solver: the linear program handed to OR-Tools
    variaveis,           \* self.variaveis: item_id -> solver variable
    variaveis_pedidos,   \* self.variaveis_pedidos: item -> solver variable
    status,              \* the status of the last Solve()
    solucao,             \* solution_value() of every variable after Solve()
    resultado,           \* self.resultado
    retorno,             \* what resolver() returned
    comparativo,         \* what calcular_comparativo() returned
    salvo,               \* the files salvar_resultados() wrote
    n_solve,             \* number of Solve() calls
    pc,                  \* position of main()
    saida,               \* how the process ended
    anterior,            \* what an earlier execution on the same inputs ended with
    config_temp,         \* the file config_temp.yaml of the working directory
    execucoes            \* the driver scripts running in the working directory

vars == <<config, arquivos, dados, solver, variaveis, variaveis_pedidos, status,
          solucao, resultado, retorno, comparativo, salvo, n_solve, pc, saida,
          anterior, config_temp, execucoes>>

\* --------------------------------------------------------------- helpers
Min(a, b) == IF a <= b THEN a ELSE b
Max(a, b) == IF a >= b THEN a ELSE b

RECURSIVE SumOver(_, _)
\* sum(f[k] for k in S)
SumOver(S, f) ==
    IF S = {} THEN 0
    ELSE LET k == CHOOSE e \in S : TRUE IN f[k] + SumOver(S \ {k}, f)

RECURSIVE SumSeq(_)
SumSeq(s) == IF s = <<>> THEN 0 ELSE Head(s) + SumSeq(Tail(s))

\* Series.mean(): NaN for an empty series
Mean(s) == IF s = <<>> THEN NaN ELSE SumSeq(s) \div Len(s)

Range(s) == { s[i] : i \in 1..Len(s) }

RECURSIVE DropDuplicates(_, _)
\* DataFrame.drop_duplicates([key]): the first row of every key is kept
DropDuplicates(s, seen) ==
    IF s = <<>> THEN <<>>
    ELSE IF Head(s).item_id \in seen THEN DropDuplicates(Tail(s), seen)
    ELSE <<Head(s)>> \o DropDuplicates(Tail(s), seen \cup {Head(s).item_id})

RECURSIVE SortedItems(_)
\* the items of a set in ascending order (groupby sorts its keys)
SortedItems(S) ==
    IF S = {} THEN <<>>
    ELSE LET m == CHOOSE x \in S : \A y \in S : x <= y
         IN <<m>> \o SortedItems(S \ {m})

\* ------------------------------------------------------------ input files
Classes  == <<"A", "B", "OUTROS">>
Objetivos == {"maximizar_margem", "minimizar_custos"}

\* item_id = (codigo do item, embalagem)
Id(item, emb) == <<item, emb>>

\* base_skus_classes.xlsx: item 5 has an empty class cell, item 4 has no row
ArquivoClasses ==
    << [item |-> 1, classe |-> "A"],
       [item |-> 2, classe |-> "A"],
       [item |-> 3, classe |-> "B"],
       [item |-> 5, classe |-> "nan"] >>

\* CUSTO ITEM.csv after parsing: one row per (item, embalagem)
ArquivoCustos(c1, c3) ==
    << [item_id |-> Id(1, "CX1"), item |-> 1, embalagem |-> "CX1", custo_ytd |-> c1],
       [item_id |-> Id(1, "CX2"), item |-> 1, embalagem |-> "CX2", custo_ytd |-> 250],
       [item_id |-> Id(2, "CX1"), item |-> 2, embalagem |-> "CX1", custo_ytd |-> 150],
       [item_id |-> Id(3, "CX1"), item |-> 3, embalagem |-> "CX1", custo_ytd |-> c3],
       [item_id |-> Id(4, "CX1"), item |-> 4, embalagem |-> "CX1", custo_ytd |-> 100],
       [item_id |-> Id(5, "CX1"), item |-> 5, embalagem |-> "CX1", custo_ytd |-> 100] >>

\* precos_sku_embalagem.csv: item 1 CX2 and item 3 CX1 have no price of their own
ArquivoPrecos(p1) ==
    << [item_id |-> Id(1, "CX1"), preco |-> p1],
       [item_id |-> Id(2, "CX1"), preco |-> 240],
       [item_id |-> Id(9, "CX1"), preco |-> 0] >>

\* pedidos_clientes.csv: the orders of item i come from up to two customers
PedidosDoItem(i, q) ==
    IF q = 0 THEN << [cod_cliente |-> 1, item |-> i, quantidade_pedida |-> 0] >>
    ELSE IF q = 1 THEN << [cod_cliente |-> 1, item |-> i, quantidade_pedida |-> 1] >>
    ELSE << [cod_cliente |-> 1, item |-> i, quantidade_pedida |-> 1],
            [cod_cliente |-> 2, item |-> i, quantidade_pedida |-> q - 1] >>

ArquivoPedidos(q1, q2) == PedidosDoItem(2, q2) \o PedidosDoItem(1, q1)

\* producao_classe.csv
ArquivoProducao(pa, pb, po) ==
    << [Classe_Produto |-> "B", quantidade |-> pb],
       [Classe_Produto |-> "OUTROS", quantidade |-> po],
       [Classe_Produto |-> "A", quantidade |-> pa] >>

\* the historical ceiling per SKU the sales statistics give (0: the SKU sold nothing)
ArquivoFaturamento(d1) ==
    << [item |-> 1, demanda_max |-> d1],
       [item |-> 3, demanda_max |-> 0] >>

\* every source present and readable
Presentes ==
    [ producao_existe |-> TRUE, custos_existe |-> TRUE, precos_existe |-> TRUE,
      pedidos_existe |-> TRUE, faturamento_existe |-> TRUE,
      faturamento_legivel |-> TRUE ]

\* the files of one run; a FALSE flag of pres marks a source missing or unreadable
Arquivo(pres, pa, pb, po, q1, q2, p1, c1, c3) ==
    pres @@
    [ producao    |-> ArquivoProducao(pa, pb, po),
      classes     |-> ArquivoClasses,
      pedidos     |-> ArquivoPedidos(q1, q2),
      precos      |-> ArquivoPrecos(p1),
      custos      |-> ArquivoCustos(c1, c3),
      faturamento |-> ArquivoFaturamento(1) ]

\* runs with a source missing or unreadable, and runs with production in the
\* class of the SKUs without a class
ArquivosEspeciais ==
    { Arquivo([Presentes EXCEPT ![k] = FALSE], 2, 1, 0, q1, 0, 360, 100, 100) :
        k \in DOMAIN Presentes, q1 \in {0, 1} }
    \cup
    { Arquivo([Presentes EXCEPT !.pedidos_existe = FALSE, !.faturamento_legivel = FALSE],
              2, 1, 0, 1, 1, 360, 100, 100) }
    \cup
    { Arquivo(Presentes, pa, 0, 1, q1, 0, 360, 100, 100) : pa \in {0, 1}, q1 \in {0, 1} }

Arquivos ==
    { Arquivo([Presentes EXCEPT !.faturamento_existe = fat],
              pa, pb, 0, q1, q2, p1, c1, c3) :
        pa \in 0..MaxProd, pb \in {0, 1}, q1 \in 0..MaxQty, q2 \in 0..MaxQty,
        p1 \in {240, 360}, c1 \in {100, 250}, c3 \in {100, 250}, fat \in BOOLEAN }
    \cup ArquivosEspeciais

Configs ==
    [ atender_pedidos : BOOLEAN,
      usar_apenas_excedente : BOOLEAN,
      tipo_objetivo : Objetivos,
      considerar_demanda_historica : BOOLEAN ]

\* ---------------------------------------------------------------- loaders
\* faulty variant: only the production file is required
FontesObrigatorias_SoProducao(arq) == arq.producao_existe

\* the sources whose absence raises: producao_classe.csv (explicit
\* FileNotFoundError) and CUSTO ITEM.csv (pd.read_csv raises)
FontesObrigatorias(arq) == arq.producao_existe /\ arq.custos_existe

\* _carregar_producao: sum per class, classes in sorted order, only quantity > 0
CarregarProducao(arq) ==
    LET Total(c) == SumSeq([i \in 1..Len(SelectSeq(arq.producao, LAMBDA r : r.Classe_Produto = c))
                             |-> SelectSeq(arq.producao, LAMBDA r : r.Classe_Produto = c)[i].quantidade])
        presentes == SelectSeq(Classes, LAMBDA c : \E i \in 1..Len(arq.producao) :
                                                       arq.producao[i].Classe_Produto = c)
        agg == [i \in 1..Len(presentes) |->
                   [classe |-> presentes[i], producao_total |-> Total(presentes[i])]]
    IN SelectSeq(agg, LAMBDA r : r.producao_total > 0)

\* _carregar_classes: the (item, classe) rows
CarregarClasses(arq) ==
    [i \in 1..Len(arq.classes) |->
        [item   |-> arq.classes[i].item,
         classe |-> IF arq.classes[i].classe = "nan" THEN "OUTROS"
                    ELSE arq.classes[i].classe]]

\* _carregar_pedidos: rows with quantity > 0, summed per item, items ascending;
\* an absent file leaves pedidos_por_sku unset (read back as an empty table)
CarregarPedidos(arq) ==
    LET df    == IF arq.pedidos_existe
                 THEN SelectSeq(arq.pedidos, LAMBDA r : r.quantidade_pedida > 0)
                 ELSE <<>>
        itens == SortedItems({ df[i].item : i \in 1..Len(df) })
        Total(it) == SumSeq([i \in 1..Len(SelectSeq(df, LAMBDA r : r.item = it))
                              |-> SelectSeq(df, LAMBDA r : r.item = it)[i].quantidade_pedida])
    IN [i \in 1..Len(itens) |->
           [item |-> itens[i], quantidade_total_pedida |-> Total(itens[i])]]

\* _carregar_precos: rows with preco > 0, one row per item_id; an empty table
\* when the file is absent
CarregarPrecos(arq) ==
    IF ~arq.precos_existe THEN <<>>
    ELSE DropDuplicates(SelectSeq(arq.precos, LAMBDA r : r.preco > 0), {})

\* _carregar_custos: one row per item_id
CarregarCustos(arq) ==
    IF arq.custos_existe THEN DropDuplicates(arq.custos, {}) ELSE <<>>

\* faulty variant: a source that cannot be read still yields its ceilings
CarregarDemandaHistorica_SemExcept(cfg, arq) ==
    IF ~cfg.considerar_demanda_historica THEN <<>>
    ELSE SelectSeq(arq.faturamento, LAMBDA r : r.demanda_max > 0)

\* _carregar_demanda_historica: no table when disabled, when the file is absent
\* or when reading it raises (except Exception); otherwise the ceilings of the
\* SKUs with demanda_max > 0
CarregarDemandaHistorica(cfg, arq) ==
    IF ~cfg.considerar_demanda_historica THEN <<>>
    ELSE IF ~arq.faturamento_existe THEN <<>>
    ELSE IF ~arq.faturamento_legivel THEN <<>>
    ELSE SelectSeq(arq.faturamento, LAMBDA r : r.demanda_max > 0)

\* --------------------------------------------- _preparar_dados_otimizacao
RECURSIVE MergeClasses(_, _)
\* df_base.merge(df_classes, on='item', how='inner')
MergeClasses(base, df_classes) ==
    IF base = <<>> THEN <<>>
    ELSE LET r == Head(base)
             m == SelectSeq(df_classes, LAMBDA c : c.item = r.item)
         IN [j \in 1..Len(m) |-> r @@ [classe |-> m[j].classe]]
            \o MergeClasses(Tail(base), df_classes)

\* the value of column Col in the first row of tab that satisfies Test, or dflt
Lookup(tab, Test(_), Col(_), dflt) ==
    LET m == SelectSeq(tab, Test) IN IF m = <<>> THEN dflt ELSE Col(m[1])

\* faulty variant: the configured flag is used as it is
UsarApenasExcedente_Configurado(cfg) == cfg.usar_apenas_excedente

\* the effective flag: forced to true when orders are fulfilled, to false otherwise
UsarApenasExcedente(cfg) ==
    IF cfg.atender_pedidos THEN TRUE
    ELSE IF cfg.usar_apenas_excedente THEN FALSE
    ELSE cfg.usar_apenas_excedente

\* a warning is logged when the invalid combination is corrected
AvisoCombinacaoInvalida(cfg) ==
    ~cfg.atender_pedidos /\ cfg.usar_apenas_excedente

\* faulty variant: only the price is tested
CombinacaoValida_SoPreco(r) == r.preco # NaN /\ r.preco > 0

\* rows with a valid margin, price and cost (comparisons with NaN are false)
CombinacaoValida(r) ==
    /\ r.margem_unitaria # NaN /\ r.margem_unitaria > 0
    /\ r.preco # NaN /\ r.preco > 0
    /\ r.custo_ytd > 0

\* the price of the item_id in the price table (left merge, line 528)
PrecoProprio(d, r) ==
    Lookup(d.precos, LAMBDA p : p.item_id = r.item_id, LAMBDA p : p.preco, NaN)

\* preco_medio_sku (line 531): mean over the priced item_ids of the SKU, the
\* SKU of a price row being the one of the cost row with the same item_id
PrecoMedioSku(d, it) ==
    LET PrecosDoSku ==
            SelectSeq(d.precos, LAMBDA p : \E i \in 1..Len(d.custos) :
                          d.custos[i].item_id = p.item_id /\ d.custos[i].item = it)
    IN Mean([i \in 1..Len(PrecosDoSku) |-> PrecosDoSku[i].preco])

\* preco_medio_geral (line 536)
PrecoMedioGeral(d) == Mean([i \in 1..Len(d.precos) |-> d.precos[i].preco])

\* faulty variant: a unit without a price of its own goes straight to the
\* general mean
PrecoDaUnidade_SemSku(d, r) ==
    IF PrecoProprio(d, r) # NaN THEN PrecoProprio(d, r) ELSE PrecoMedioGeral(d)

\* the price column after the two fillna (lines 528-537)
PrecoDaUnidade(d, r) ==
    IF PrecoProprio(d, r) # NaN THEN PrecoProprio(d, r)
    ELSE IF PrecoMedioSku(d, r.item) # NaN THEN PrecoMedioSku(d, r.item)
    ELSE PrecoMedioGeral(d)

\* df_base up to the merge with the orders (lines 519-563)
BaseReconciliada(d) ==
    LET b1 == MergeClasses(d.custos, d.classes)
        b2 == SelectSeq(b1, LAMBDA r : \E i \in 1..Len(d.producao) :
                                           d.producao[i].classe = r.classe)
        b3 == [i \in 1..Len(b2) |->
                 LET pr == PrecoDaUnidade(d, b2[i])
                 IN b2[i] @@ [preco |-> pr,
                              margem_unitaria |-> IF pr = NaN THEN NaN
                                                  ELSE pr - b2[i].custo_ytd]]
        b4 == SelectSeq(b3, CombinacaoValida)
    IN [i \in 1..Len(b4) |->
          b4[i] @@
          [producao_total |->
               Lookup(d.producao, LAMBDA p : p.classe = b4[i].classe,
                      LAMBDA p : p.producao_total, 0),
           quantidade_total_pedida |->
               Lookup(d.pedidos_por_sku, LAMBDA p : p.item = b4[i].item,
                      LAMBDA p : p.quantidade_total_pedida, 0)]]

\* the classes of a table, in order of first appearance
RECURSIVE Unique(_, _)
Unique(s, seen) ==
    IF s = <<>> THEN <<>>
    ELSE IF Head(s) \in seen THEN Unique(Tail(s), seen)
    ELSE <<Head(s)>> \o Unique(Tail(s), seen \cup {Head(s)})

ClassesDe(base) == Unique([i \in 1..Len(base) |-> base[i].classe], {})

\* faulty variant: with no orders the class orders are an empty series, not zeros
PedidosPorClasse_Vazio(d, base, c) ==
    IF Len(d.pedidos_por_sku) > 0
    THEN Lookup(base, LAMBDA r : r.classe = c,
                LAMBDA r : r.quantidade_total_pedida, NaN)
    ELSE NaN

\* pedidos_por_classe (lines 590-593): groupby('classe')[...].first()
PedidosPorClasse(d, base, c) ==
    IF Len(d.pedidos_por_sku) > 0
    THEN Lookup(base, LAMBDA r : r.classe = c,
                LAMBDA r : r.quantidade_total_pedida, NaN)
    ELSE 0

\* producao_excedente_por_classe (lines 598-603), for a class with production
ProducaoExcedente(cfg, d, base, c) ==
    LET prod == Lookup(d.producao, LAMBDA p : p.classe = c,
                       LAMBDA p : p.producao_total, NaN)
        ped  == PedidosPorClasse(d, base, c)
    IN IF cfg.atender_pedidos
       THEN IF prod = NaN \/ ped = NaN THEN NaN ELSE Max(prod - ped, 0)
       ELSE prod

\* producao_disponivel_otimizacao (lines 606-609)
ProducaoDisponivel(cfg, d, base, c) ==
    IF ~cfg.atender_pedidos /\ ~UsarApenasExcedente(cfg)
    THEN Lookup(d.producao, LAMBDA p : p.classe = c, LAMBDA p : p.producao_total, NaN)
    ELSE ProducaoExcedente(cfg, d, base, c)

FillNa0(x) == IF x = NaN THEN 0 ELSE x

\* self.dados after _preparar_dados_otimizacao
PrepararDadosOtimizacao(cfg, d) ==
    LET base == BaseReconciliada(d)
        prods == [i \in 1..Len(d.producao) |-> d.producao[i].classe]
    IN [d EXCEPT
          !.base_otimizacao =
              [i \in 1..Len(base) |->
                  base[i] @@ [producao_disponivel_otimizacao_classe |->
                                 FillNa0(ProducaoDisponivel(cfg, d, base, base[i].classe))]],
          !.producao_excedente_por_classe =
              [c \in Range(prods) |-> ProducaoExcedente(cfg, d, base, c)],
          !.usar_apenas_excedente = UsarApenasExcedente(cfg),
          !.atender_pedidos = cfg.atender_pedidos,
          !.aviso = AvisoCombinacaoInvalida(cfg)]

\* self.dados = {} : every .get() of a missing key gives its default
DadosVazio ==
    [ producao |-> <<>>, classes |-> <<>>, pedidos_por_sku |-> <<>>,
      precos |-> <<>>, custos |-> <<>>, demanda_historica |-> <<>>,
      base_otimizacao |-> <<>>,
      producao_excedente_por_classe |-> <<>>,
      usar_apenas_excedente |-> TRUE, atender_pedidos |-> TRUE,
      aviso |-> FALSE ]

\* carregar_dados up to the point where it may raise
DadosCarregados(cfg, arq) ==
    PrepararDadosOtimizacao(cfg,
        [DadosVazio EXCEPT
            !.producao = CarregarProducao(arq),
            !.classes = CarregarClasses(arq),
            !.pedidos_por_sku = CarregarPedidos(arq),
            !.precos = CarregarPrecos(arq),
            !.custos = CarregarCustos(arq),
            !.demanda_historica = CarregarDemandaHistorica(cfg, arq)])

\* ------------------------------------------------------------ criar_modelo
\* the key of the order variable of an item (y_pedido_<item>)
IdPedido(item) == <<item, "PEDIDO">>

\* rows of the base table of one SKU
ItemIdsDoSku(base, item) == SelectSeq(base, LAMBDA r : r.item = item)

\* faulty variant: the order quantity is forgotten, only the class pool bounds the order
LimiteAtendimento_SoClasse(base, ped) ==
    LET rows == ItemIdsDoSku(base, ped.item)
    IN IF Len(rows) > 0 THEN rows[1].producao_disponivel_otimizacao_classe ELSE 0

\* limite_atendimento (lines 715-721 and 783-788)
LimiteAtendimento(base, ped) ==
    LET rows == ItemIdsDoSku(base, ped.item)
    IN IF Len(rows) > 0
       THEN Min(ped.quantidade_total_pedida,
                rows[1].producao_disponivel_otimizacao_classe)
       ELSE 0

\* faulty variant: the orders are walked whatever the mode
PedidosDoModelo_Sempre(d) == d.pedidos_por_sku

\* the pedidos rows the builder walks (lines 707, 776, 930)
PedidosDoModelo(d) ==
    IF d.atender_pedidos /\ Len(d.pedidos_por_sku) > 0 THEN d.pedidos_por_sku ELSE <<>>

\* self.variaveis_pedidos: item -> upper bound of its variable (lines 707-728)
VariaveisPedidos(d) ==
    LET peds == SelectSeq(PedidosDoModelo(d),
                          LAMBDA p : LimiteAtendimento(d.base_otimizacao, p) > 0)
    IN [it \in { peds[i].item : i \in 1..Len(peds) } |->
          LimiteAtendimento(d.base_otimizacao,
              SelectSeq(peds, LAMBDA p : p.item = it)[1])]

\* faulty variant: every unit is bounded by an equal share of the class pool
Variaveis_PorUnidade(d) ==
    LET rows == SelectSeq(d.base_otimizacao,
                          LAMBDA r : r.producao_disponivel_otimizacao_classe > 0)
        N(c) == Len(SelectSeq(rows, LAMBDA r : r.classe = c))
    IN [id \in { rows[i].item_id : i \in 1..Len(rows) } |->
          LET r == SelectSeq(rows, LAMBDA x : x.item_id = id)[1]
          IN r.producao_disponivel_otimizacao_classe \div N(r.classe)]

\* self.variaveis: item_id -> upper bound of its variable (lines 740-753)
Variaveis(d) ==
    LET rows == SelectSeq(d.base_otimizacao,
                          LAMBDA r : r.producao_disponivel_otimizacao_classe > 0)
    IN [id \in { rows[i].item_id : i \in 1..Len(rows) } |->
          SelectSeq(rows, LAMBDA r : r.item_id = id)[1].producao_disponivel_otimizacao_classe]

\* RESTRICAO 1 (lines 776-792): y <= limite_atendimento
RestricoesPedidos(d, vp) ==
    LET peds == SelectSeq(PedidosDoModelo(d), LAMBDA p : p.item \in DOMAIN vp)
    IN { [termos |-> {IdPedido(peds[i].item)},
          limite |-> LimiteAtendimento(d.base_otimizacao, peds[i])] : i \in 1..Len(peds) }

\* faulty variant: every unit variable is bounded on its own, the class sum is not
RestricoesClasse_PorUnidade(d, v) ==
    { [termos |-> {id}, limite |-> v[id]] : id \in DOMAIN v }

\* RESTRICAO 2 (lines 799-824): sum of the class's unit variables <= class pool
RestricoesClasse(d, v) ==
    LET base == d.base_otimizacao
        cls  == ClassesDe(base)
        Disp(c) == SelectSeq(base, LAMBDA r : r.classe = c)[1].producao_disponivel_otimizacao_classe
        comPool == SelectSeq(cls, LAMBDA c : Disp(c) > 0)
    IN { [termos |-> { r.item_id : r \in { x \in Range(base) : x.classe = comPool[i] } }
                       \cap DOMAIN v,
          limite |-> Disp(comPool[i])] : i \in 1..Len(comPool) }

\* faulty variant: the ceiling is what the SKU's orders leave of it
RestricoesDemanda_MenosPedidos(cfg, d, v) ==
    LET df_demanda == IF cfg.considerar_demanda_historica THEN d.demanda_historica ELSE <<>>
        rows == IF cfg.considerar_demanda_historica /\ Len(df_demanda) > 0
                THEN SelectSeq(d.base_otimizacao,
                         LAMBDA r : /\ r.item_id \in DOMAIN v
                                    /\ \E i \in 1..Len(df_demanda) : df_demanda[i].item = r.item)
                ELSE <<>>
        Pedido(it) == SumSeq([i \in 1..Len(d.pedidos_por_sku) |->
                                IF d.pedidos_por_sku[i].item = it
                                THEN d.pedidos_por_sku[i].quantidade_total_pedida ELSE 0])
    IN { [termos |-> {rows[i].item_id},
          limite |-> SelectSeq(df_demanda, LAMBDA x : x.item = rows[i].item)[1].demanda_max
                     - Pedido(rows[i].item)]
         : i \in 1..Len(rows) }

\* faulty variant: the historical ceilings are never added
RestricoesDemanda_Nenhuma(cfg, d, v) == {}

\* RESTRICAO 3 (lines 836-861): x <= historical ceiling of the SKU
RestricoesDemanda(cfg, d, v) ==
    LET df_demanda == IF cfg.considerar_demanda_historica THEN d.demanda_historica ELSE <<>>
        rows == IF cfg.considerar_demanda_historica /\ Len(df_demanda) > 0
                THEN SelectSeq(d.base_otimizacao,
                         LAMBDA r : /\ r.item_id \in DOMAIN v
                                    /\ \E i \in 1..Len(df_demanda) : df_demanda[i].item = r.item)
                ELSE <<>>
    IN { [termos |-> {rows[i].item_id},
          limite |-> SelectSeq(df_demanda, LAMBDA x : x.item = rows[i].item)[1].demanda_max]
         : i \in 1..Len(rows) }

\* _adicionar_restricoes
AdicionarRestricoes(cfg, d, v, vp) ==
    RestricoesPedidos(d, vp) \cup RestricoesClasse(d, v) \cup RestricoesDemanda(cfg, d, v)

\* tipo_objetivo (lines 915-917)
TipoObjetivo(cfg) ==
    IF cfg.tipo_objetivo # "maximizar_margem" THEN "minimizar_custos" ELSE cfg.tipo_objetivo

\* coefficient of an order variable (lines 930-941): first package of the item
CoefPedido(cfg, base, item) ==
    LET rows == ItemIdsDoSku(base, item)
    IN IF TipoObjetivo(cfg) = "maximizar_margem"
       THEN (IF Len(rows) > 0 THEN rows[1].margem_unitaria ELSE 0)
       ELSE (IF Len(rows) > 0 THEN rows[1].custo_ytd ELSE 0)

\* faulty variant: the reward term is left out of the cost objective
CoefExcedente_SemRecompensa(cfg, r) ==
    IF TipoObjetivo(cfg) = "maximizar_margem" THEN r.margem_unitaria ELSE r.custo_ytd

\* coefficient of a unit variable (lines 944-979)
CoefExcedente(cfg, r) ==
    IF TipoObjetivo(cfg) = "maximizar_margem"
    THEN r.margem_unitaria
    ELSE r.custo_ytd - PesoRecompensa

\* _definir_objetivo: coefficient of every variable and the sense
DefinirObjetivo(cfg, d, v, vp) ==
    [ coef |-> [k \in DOMAIN v \cup { IdPedido(it) : it \in DOMAIN vp } |->
                  IF k \in DOMAIN v
                  THEN CoefExcedente(cfg, SelectSeq(d.base_otimizacao,
                                                    LAMBDA r : r.item_id = k)[1])
                  ELSE CoefPedido(cfg, d.base_otimizacao, k[1])],
      sentido |-> IF TipoObjetivo(cfg) = "maximizar_margem" THEN "Maximize" ELSE "Minimize" ]

\* the linear program of criar_modelo
CriarSolver(cfg, d) ==
    LET v  == Variaveis(d)
        vp == VariaveisPedidos(d)
    IN [ criado |-> TRUE,
         lim |-> [k \in DOMAIN v \cup { IdPedido(it) : it \in DOMAIN vp } |->
                    IF k \in DOMAIN v THEN v[k] ELSE vp[k[1]]],
         restricoes |-> AdicionarRestricoes(cfg, d, v, vp),
         objetivo |-> DefinirObjetivo(cfg, d, v, vp) ]

SolverNone ==
    [ criado |-> FALSE, lim |-> <<>>, restricoes |-> {},
      objetivo |-> [coef |-> <<>>, sentido |-> "Maximize"] ]

\* ------------------------------------------------------- the LP back end
\* largest upper bound of a variable of the program
MaiorLimite(sv) ==
    IF DOMAIN sv.lim = {} THEN 0
    ELSE CHOOSE m \in { sv.lim[k] : k \in DOMAIN sv.lim } :
             \A k \in DOMAIN sv.lim : sv.lim[k] <= m

\* the assignments that satisfy every bound and every constraint
Viaveis(sv) ==
    { s \in [DOMAIN sv.lim -> 0..MaiorLimite(sv)] :
        /\ \A k \in DOMAIN sv.lim : s[k] <= sv.lim[k]
        /\ \A r \in sv.restricoes : SumOver(r.termos, s) <= r.limite }

\* solver.Objective().Value()
ValorObjetivo(sv, s) ==
    SumOver(DOMAIN sv.lim, [k \in DOMAIN sv.lim |-> sv.objetivo.coef[k] * s[k]])

\* faulty variant: any feasible assignment is reported as optimal
Otimas_Qualquer(sv) == Viaveis(sv)

\* the feasible assignments no other feasible assignment improves on
Otimas(sv) ==
    LET V == Viaveis(sv)
        vals == { ValorObjetivo(sv, s) : s \in V }
        melhor == IF sv.objetivo.sentido = "Maximize"
                  THEN CHOOSE m \in vals : \A w \in vals : w <= m
                  ELSE CHOOSE m \in vals : \A w \in vals : m <= w
    IN IF V = {} THEN {} ELSE { s \in V : ValorObjetivo(sv, s) = melhor }

\* faulty variant: only OPTIMAL counts as solved, FEASIBLE is treated as a failure
StatusSemSolucao_SoOtimo(sv) ==
    {"NOT_SOLVED", "ABNORMAL", "FEASIBLE"}
        \cup (IF Viaveis(sv) = {} THEN {"INFEASIBLE"} ELSE {})

\* statuses of Solve() that carry no solution
StatusSemSolucao(sv) ==
    {"NOT_SOLVED", "ABNORMAL"} \cup (IF Viaveis(sv) = {} THEN {"INFEASIBLE"} ELSE {})

\* ------------------------------------------------------ _extrair_resultado
IdNaN == <<NaN, "nan">>

\* tipo_alocacao (lines 1078-1081)
TipoAlocacao(d) ==
    IF d.atender_pedidos THEN "EXCEDENTE"
    ELSE IF ~d.usar_apenas_excedente THEN "ESTOQUE_TOTAL" ELSE "EXCEDENTE"

\* qtd > 0.01 on whole units
Alocado(qtd) == qtd >= 1

\* rows of the unit variables (lines 1084-1107), in the order of self.variaveis
LinhasOtimizacao(d, v, s) ==
    LET rows == SelectSeq(d.base_otimizacao,
                          LAMBDA r : r.item_id \in DOMAIN v /\ Alocado(s[r.item_id]))
    IN [i \in 1..Len(rows) |->
          LET r == rows[i]  qtd == s[r.item_id]
          IN [ item_id |-> r.item_id, item |-> r.item, embalagem |-> r.embalagem,
               classe |-> r.classe, quantidade |-> qtd, tipo |-> TipoAlocacao(d),
               producao_total |-> r.producao_total,
               producao_disponivel |-> r.producao_disponivel_otimizacao_classe,
               quantidade_pedida |-> NaN, percentual_atendido |-> NaN,
               preco |-> r.preco, custo_ytd |-> r.custo_ytd,
               margem_unitaria |-> r.margem_unitaria,
               receita_total |-> qtd * r.preco,
               custo_total |-> qtd * r.custo_ytd,
               margem_total |-> qtd * r.margem_unitaria ]]

\* rows of the order variables (lines 1110-1136)
LinhasPedidos(d, vp, s) ==
    LET peds == SelectSeq(d.pedidos_por_sku,
                    LAMBDA p : /\ p.item \in DOMAIN vp
                               /\ Alocado(s[IdPedido(p.item)])
                               /\ Len(ItemIdsDoSku(d.base_otimizacao, p.item)) > 0)
    IN [i \in 1..Len(peds) |->
          LET r == ItemIdsDoSku(d.base_otimizacao, peds[i].item)[1]
              qtd == s[IdPedido(peds[i].item)]
              pedida == peds[i].quantidade_total_pedida
          IN [ item_id |-> IdNaN, item |-> peds[i].item, embalagem |-> "PEDIDO",
               classe |-> r.classe, quantidade |-> qtd, tipo |-> "PEDIDO",
               producao_total |-> r.producao_total,
               producao_disponivel |-> NaN,
               quantidade_pedida |-> pedida,
               percentual_atendido |-> IF pedida > 0 THEN (qtd * 100) \div pedida ELSE 0,
               preco |-> r.preco, custo_ytd |-> r.custo_ytd,
               margem_unitaria |-> r.margem_unitaria,
               receita_total |-> qtd * r.preco,
               custo_total |-> qtd * r.custo_ytd,
               margem_total |-> qtd * r.margem_unitaria ]]

\* faulty variant: no table at all when nothing is allocated
ExtrairResultado_SemLinhas(d, v, vp, s) ==
    LET linhas == LinhasOtimizacao(d, v, s) \o LinhasPedidos(d, vp, s)
    IN [ existe |-> linhas # <<>>, linhas |-> linhas ]

\* self.resultado after _extrair_resultado: a table, empty when nothing is allocated
ExtrairResultado(d, v, vp, s) ==
    [ existe |-> TRUE, linhas |-> LinhasOtimizacao(d, v, s) \o LinhasPedidos(d, vp, s) ]

\* self.resultado = None
ResultadoNone == [ existe |-> FALSE, linhas |-> <<>> ]

\* ---------------------------------------------------- calcular_comparativo
\* six times the mean of a column over the rows of a class (a class has at most
\* three reconciled units, so the product is a whole number)
Media6(rows, Col(_)) == (6 * SumSeq([i \in 1..Len(rows) |-> Col(rows[i])])) \div Len(rows)

\* faulty variant: the margin of the first unit of the class stands for the mean
MargemMedia6_Primeira(d, c) ==
    6 * SelectSeq(d.base_otimizacao, LAMBDA r : r.classe = c)[1].margem_unitaria

\* margem_media (line 1225) of a class with reconciled units, in sixths
MargemMedia6(d, c) ==
    Media6(SelectSeq(d.base_otimizacao, LAMBDA r : r.classe = c),
           LAMBDA r : r.margem_unitaria)

\* custo_medio (line 1226) of a class with reconciled units, in sixths
CustoMedio6(d, c) ==
    Media6(SelectSeq(d.base_otimizacao, LAMBDA r : r.classe = c),
           LAMBDA r : r.custo_ytd)

ComparativoNone == [ existe |-> FALSE ]

\* the comparison (lines 1203-1264); money in sixths of a currency unit,
\* percentages rounded down to whole percent
CalcularComparativoDe(d, res) ==
    IF ~res.existe \/ Len(res.linhas) = 0 THEN ComparativoNone
    ELSE
    LET comUnidades == SelectSeq(d.producao, LAMBDA p :
                           \E i \in 1..Len(d.base_otimizacao) :
                               d.base_otimizacao[i].classe = p.classe)
        margem_baseline == SumSeq([i \in 1..Len(comUnidades) |->
                               comUnidades[i].producao_total *
                               MargemMedia6(d, comUnidades[i].classe)])
        custo_baseline == SumSeq([i \in 1..Len(comUnidades) |->
                               comUnidades[i].producao_total *
                               CustoMedio6(d, comUnidades[i].classe)])
        margem_otimizada == 6 * SumSeq([i \in 1..Len(res.linhas) |-> res.linhas[i].margem_total])
        custo_otimizado  == 6 * SumSeq([i \in 1..Len(res.linhas) |-> res.linhas[i].custo_total])
        ganho_margem  == margem_otimizada - margem_baseline
        reducao_custo == custo_baseline - custo_otimizado
    IN [ existe |-> TRUE,
         margem_baseline |-> margem_baseline,
         margem_otimizada |-> margem_otimizada,
         ganho_absoluto |-> ganho_margem,
         ganho_percentual |-> IF margem_baseline > 0
                              THEN (ganho_margem * 100) \div margem_baseline ELSE 0,
         custo_baseline |-> custo_baseline,
         custo_otimizado |-> custo_otimizado,
         reducao_custo |-> reducao_custo,
         reducao_custo_pct |-> IF custo_baseline > 0
                               THEN (reducao_custo * 100) \div custo_baseline ELSE 0 ]

\* ------------------------------------------------------ salvar_resultados
\* modo_sufixo (lines 1280-1289)
ModoSufixo(d) ==
    IF d.atender_pedidos THEN "excedente"
    ELSE IF d.usar_apenas_excedente THEN "excedente" ELSE "completo"

\* first non-null value of a column (GroupBy.first skips NaN)
PrimeiroNaoNulo(vals) ==
    LET ok == SelectSeq(vals, LAMBDA x : x # NaN) IN IF ok = <<>> THEN NaN ELSE ok[1]

\* resumo_classe (lines 1307-1328): one row per class of the decision table.
\* The aggregation yields the columns item, quantidade, margem_total,
\* producao_total, producao_disponivel in this order and the rename labels them
\* num_skus, quantidade_alocada, producao_total, producao_disponivel,
\* margem_total by position.
ResumoClasse(res) ==
    LET cls == SelectSeq(Classes, LAMBDA c : \E i \in 1..Len(res.linhas) :
                                                 res.linhas[i].classe = c)
        De(c) == SelectSeq(res.linhas, LAMBDA r : r.classe = c)
    IN [i \in 1..Len(cls) |->
          [ classe |-> cls[i],
            num_skus |-> Cardinality({ De(cls[i])[j].item : j \in 1..Len(De(cls[i])) }),
            quantidade_alocada |-> SumSeq([j \in 1..Len(De(cls[i])) |-> De(cls[i])[j].quantidade]),
            producao_total |-> SumSeq([j \in 1..Len(De(cls[i])) |-> De(cls[i])[j].margem_total]),
            producao_disponivel |->
                PrimeiroNaoNulo([j \in 1..Len(De(cls[i])) |-> De(cls[i])[j].producao_total]),
            margem_total |->
                PrimeiroNaoNulo([j \in 1..Len(De(cls[i])) |->
                                    De(cls[i])[j].producao_disponivel]) ]]

\* sum of the column quantidade over the rows of the decision table with a tag
\* of the set tipos
QuantidadeDosTipos(res, tipos) ==
    LET rows == SelectSeq(res.linhas, LAMBDA r : r.tipo \in tipos)
    IN SumSeq([i \in 1..Len(rows) |-> rows[i].quantidade])

\* the tags the two reports split the decision table by
TiposRelatados == {"PEDIDO", "EXCEDENTE"}

\* _criar_aba_estatisticas (lines 1361-1367, 1385-1416): the quantities of the
\* sections PEDIDOS ATENDIDOS, OTIMIZACAO NO EXCEDENTE and TOTAIS; a section is
\* written only when it has rows
CriarAbaEstatisticas(res) ==
    [ tem_pedidos |-> \E i \in 1..Len(res.linhas) : res.linhas[i].tipo = "PEDIDO",
      qtd_atendida |-> QuantidadeDosTipos(res, {"PEDIDO"}),
      tem_excedente |-> \E i \in 1..Len(res.linhas) : res.linhas[i].tipo = "EXCEDENTE",
      qtd_excedente |-> QuantidadeDosTipos(res, {"EXCEDENTE"}),
      qtd_total |-> QuantidadeDosTipos(res, { res.linhas[i].tipo : i \in 1..Len(res.linhas) }) ]

\* the stats record of testar_modo (testar_modos_operacao.py lines 48-70), for a
\* non-empty decision table
EstatisticasTestarModo(res) ==
    [ qtd_pedidos |-> QuantidadeDosTipos(res, {"PEDIDO"}),
      qtd_excedente |-> QuantidadeDosTipos(res, {"EXCEDENTE"}),
      qtd_total |-> QuantidadeDosTipos(res, { res.linhas[i].tipo : i \in 1..Len(res.linhas) }) ]

NadaSalvo == [ escrito |-> FALSE ]

SalvarResultadosDe(d, res) ==
    IF ~res.existe THEN NadaSalvo
    ELSE [ escrito |-> TRUE, modo_sufixo |-> ModoSufixo(d),
           resultado_detalhado |-> res.linhas,
           resumo_classe |-> ResumoClasse(res),
           estatisticas |-> CriarAbaEstatisticas(res) ]

\* ------------------------------------------------------ the driver scripts
\* the driver processes that may run in one working directory
Processos == {1, 2}

\* number of dates of a sweep: datas_teste = df_datas.head(3)
NumDatas == 3

\* the keys of self.dados after carregar_dados (every assignment to self.dados)
ChavesDeDados ==
    { "producao", "classes", "pedidos", "pedidos_por_sku", "precos", "custos",
      "demanda_historica", "base_otimizacao", "producao_por_classe",
      "producao_excedente_por_classe", "estoque_por_classe",
      "estoque_excedente_por_classe", "usar_apenas_excedente", "atender_pedidos" }

\* what yaml.safe_load reads from a configuration file: the section 'modelo'
\* and the key dados.data_estoque; vazio marks a file opened for writing and
\* not yet written (safe_load gives None)
ConfigYaml(cfg, data) == [ vazio |-> FALSE, modelo |-> cfg, data_estoque |-> data ]

ConteudoVazio ==
    [ vazio |-> TRUE,
      modelo |-> [ atender_pedidos |-> TRUE, usar_apenas_excedente |-> TRUE,
                   tipo_objetivo |-> "maximizar_margem",
                   considerar_demanda_historica |-> FALSE ],
      data_estoque |-> 0 ]

\* no inode: the inode of a file is named by the run <<processo, k>> that created it
InodeNone == <<0, 0>>

\* config_temp.yaml does not exist
Ausente == [ existe |-> FALSE, inode |-> InodeNone, conteudo |-> ConteudoVazio ]

\* no model object
ModeloNone == [ existe |-> FALSE, config |-> ConteudoVazio ]

\* the temporary configurations a driver writes, one per run: the sweep sets the
\* date (testar_com_realocacao.py line 52), the mode test the two flags for
\* mode 1 and mode 2 (testar_modos_operacao.py lines 29-30, 99-102), the mode-2
\* script both flags to false (testar_modo2.py lines 12-13)
Roteiro(tipo, cfg) ==
    IF tipo = "varredura"
    THEN [k \in 1..NumDatas |-> ConfigYaml(cfg, k)]
    ELSE IF tipo = "modos"
    THEN << ConfigYaml([cfg EXCEPT !.atender_pedidos = TRUE,
                                   !.usar_apenas_excedente = TRUE], 0),
            ConfigYaml([cfg EXCEPT !.atender_pedidos = FALSE,
                                   !.usar_apenas_excedente = TRUE], 0) >>
    ELSE IF tipo = "modo2"
    THEN << ConfigYaml([cfg EXCEPT !.atender_pedidos = FALSE,
                                   !.usar_apenas_excedente = FALSE], 0) >>
    ELSE <<>>

\* a process that runs no driver
SemRoteiro ==
    [ tipo |-> "nenhum", pc |-> "fim", k |-> 0, fd |-> InodeNone,
      escrito |-> ConteudoVazio, modelo |-> ModeloNone, erro |-> "",
      retorno |-> "NONE", comparativo |-> ComparativoNone,
      resultados |-> <<>>, comparadas |-> <<>>, stats |-> <<>>,
      salvou |-> FALSE, relatorio |-> FALSE ]

\* a driver about to start its first run
Inicio(tipo) == [SemRoteiro EXCEPT !.tipo = tipo, !.pc = "abrir", !.k = 1]

\* ------------------------------------------------------------------ main
Executando == [ terminou |-> FALSE, codigo |-> 0, erro |-> "" ]

\* no earlier execution
AnteriorNone ==
    [ existe |-> FALSE, status |-> "NONE", valor |-> 0, erro |-> "",
      programa |-> SolverNone ]

Init ==
    /\ anterior = AnteriorNone
    /\ config_temp = Ausente
    /\ execucoes = [p \in Processos |-> SemRoteiro]
    /\ config \in Configs
    /\ arquivos \in Arquivos
    /\ config.considerar_demanda_historica
          \/ ~arquivos.faturamento_existe
          \/ arquivos \in ArquivosEspeciais
    /\ dados = DadosVazio
    /\ solver = SolverNone
    /\ variaveis = <<>>
    /\ variaveis_pedidos = <<>>
    /\ status = "NONE"
    /\ solucao = <<>>
    /\ resultado = ResultadoNone
    /\ retorno = "NONE"
    /\ comparativo = ComparativoNone
    /\ salvo = NadaSalvo
    /\ n_solve = 0
    /\ pc = "carregar_dados"
    /\ saida = Executando

\* modelo.carregar_dados() with every source present
CarregarDados ==
    /\ pc = "carregar_dados"
    /\ FontesObrigatorias(arquivos)
    /\ dados' = DadosCarregados(config, arquivos)
    /\ pc' = "criar_modelo"
    /\ UNCHANGED <<config_temp, execucoes, anterior, config, arquivos, solver, variaveis, variaveis_pedidos, status,
                   solucao, resultado, retorno, comparativo, salvo, n_solve, saida>>

\* _carregar_producao or _carregar_custos raises FileNotFoundError: the
\* traceback ends the process
CarregarDadosFalha ==
    /\ pc = "carregar_dados"
    /\ ~FontesObrigatorias(arquivos)
    /\ pc' = "fim"
    /\ saida' = [ terminou |-> TRUE, codigo |-> 1, erro |-> "FileNotFoundError" ]
    /\ UNCHANGED <<config_temp, execucoes, anterior, config, arquivos, dados, solver, variaveis, variaveis_pedidos, status,
                   solucao, resultado, retorno, comparativo, salvo, n_solve>>

\* modelo.criar_modelo()
CriarModelo ==
    /\ pc = "criar_modelo"
    /\ solver' = CriarSolver(config, dados)
    /\ variaveis' = Variaveis(dados)
    /\ variaveis_pedidos' = VariaveisPedidos(dados)
    /\ pc' = "resolver"
    /\ UNCHANGED <<config_temp, execucoes, anterior, config, arquivos, dados, status, solucao, resultado, retorno,
                   comparativo, salvo, n_solve, saida>>

\* modelo.resolver() ending OPTIMAL or FEASIBLE: extraction, returns True
ResolverComSolucao ==
    /\ pc = "resolver"
    /\ \E st \in {"OPTIMAL", "FEASIBLE"} :
         \E s \in (IF st = "OPTIMAL" THEN Otimas(solver) ELSE Viaveis(solver)) :
            /\ status' = st
            /\ solucao' = s
            /\ resultado' = ExtrairResultado(dados, variaveis, variaveis_pedidos, s)
    /\ n_solve' = n_solve + 1
    /\ retorno' = "True"
    /\ pc' = "calcular_comparativo"
    /\ UNCHANGED <<config_temp, execucoes, anterior, config, arquivos, dados, solver, variaveis, variaveis_pedidos,
                   comparativo, salvo, saida>>

\* modelo.resolver() ending in any other status: no extraction, returns False
ResolverSemSolucao ==
    /\ pc = "resolver"
    /\ \E st \in StatusSemSolucao(solver) : status' = st
    /\ n_solve' = n_solve + 1
    /\ retorno' = "False"
    /\ pc' = "retornar"
    /\ UNCHANGED <<config_temp, execucoes, anterior, config, arquivos, dados, solver, variaveis, variaveis_pedidos,
                   solucao, resultado, comparativo, salvo, saida>>

\* modelo.calcular_comparativo()
CalcularComparativo ==
    /\ pc = "calcular_comparativo"
    /\ comparativo' = CalcularComparativoDe(dados, resultado)
    /\ pc' = "salvar_resultados"
    /\ UNCHANGED <<config_temp, execucoes, anterior, config, arquivos, dados, solver, variaveis, variaveis_pedidos, status,
                   solucao, resultado, retorno, salvo, n_solve, saida>>

\* modelo.salvar_resultados()
SalvarResultados ==
    /\ pc = "salvar_resultados"
    /\ salvo' = SalvarResultadosDe(dados, resultado)
    /\ pc' = "retornar"
    /\ UNCHANGED <<config_temp, execucoes, anterior, config, arquivos, dados, solver, variaveis, variaveis_pedidos, status,
                   solucao, resultado, retorno, comparativo, n_solve, saida>>

\* main() returns: the interpreter exits with code 0
MainRetorna ==
    /\ pc = "retornar"
    /\ pc' = "fim"
    /\ saida' = [ terminou |-> TRUE, codigo |-> 0, erro |-> "" ]
    /\ UNCHANGED <<config_temp, execucoes, anterior, config, arquivos, dados, solver, variaveis, variaveis_pedidos, status,
                   solucao, resultado, retorno, comparativo, salvo, n_solve>>

Next ==
    \/ CarregarDados
    \/ CarregarDadosFalha
    \/ CriarModelo
    \/ ResolverComSolucao
    \/ ResolverSemSolucao
    \/ CalcularComparativo
    \/ SalvarResultados
    \/ MainRetorna

Spec == Init /\ [][Next]_vars

\* ------------------------------------------------- a second execution
\* inputs of the runs that are executed twice
ArquivosReexecucao ==
    ArquivosEspeciais
    \cup { Arquivo([Presentes EXCEPT !.faturamento_existe = FALSE],
                   pa, 1, 0, q1, 0, 360, c1, 100) :
             pa \in 0..MaxProd, q1 \in 0..MaxQty, c1 \in {100, 250} }

InitReexecucao == Init /\ arquivos \in ArquivosReexecucao

\* the process ended; main() is started again with the same files and the same
\* configuration, every attribute of the new object at its __init__ value
Reexecutar ==
    /\ pc = "fim"
    /\ ~anterior.existe
    /\ anterior' = [ existe |-> TRUE, status |-> status,
                     valor |-> IF status \in {"OPTIMAL", "FEASIBLE"}
                               THEN ValorObjetivo(solver, solucao) ELSE 0,
                     erro |-> saida.erro,
                     programa |-> solver ]
    /\ dados' = DadosVazio
    /\ solver' = SolverNone
    /\ variaveis' = <<>>
    /\ variaveis_pedidos' = <<>>
    /\ status' = "NONE"
    /\ solucao' = <<>>
    /\ resultado' = ResultadoNone
    /\ retorno' = "NONE"
    /\ comparativo' = ComparativoNone
    /\ salvo' = NadaSalvo
    /\ n_solve' = 0
    /\ pc' = "carregar_dados"
    /\ saida' = Executando
    /\ UNCHANGED <<config, arquivos, config_temp, execucoes>>

NextReexecucao ==
    \/ Next
    \/ Reexecutar

SpecReexecucao == InitReexecucao /\ [][NextReexecucao]_vars

\* ---------------------------------------------- the runs of a driver script
\* the variables of the model module run on its own
varsPrincipal == <<config, arquivos, dados, solver, variaveis, variaveis_pedidos,
                   status, solucao, resultado, retorno, comparativo, salvo,
                   n_solve, pc, saida, anterior>>

\* inputs/ of the working directory of the drivers
ArquivosDosRoteiros ==
    { Arquivo(Presentes, pa, pb, 0, q1, 0, 360, 100, 100) :
        pa \in {0, MaxProd}, pb \in {0, 1}, q1 \in {0, 1} }
    \cup { Arquivo([Presentes EXCEPT !.custos_existe = FALSE],
                   2, 1, 0, 0, 0, 360, 100, 100) }

\* the section 'modelo' of config.yaml
ConfigsDosRoteiros ==
    { c \in Configs : /\ ~c.considerar_demanda_historica
                      /\ c.usar_apenas_excedente = c.atender_pedidos }

\* what carregar_dados, criar_modelo, resolver and calcular_comparativo leave on
\* a model object built from cfg: the error carregar_dados raised, or what
\* resolver returned with the decision table and the comparison (Solve() may
\* stop at any feasible point, or without a solution)
ResultadosDoModelo(cfg, arq) ==
    IF ~FontesObrigatorias(arq)
    THEN { [ erro |-> "FileNotFoundError", retorno |-> "NONE",
             resultado |-> ResultadoNone, comparativo |-> ComparativoNone ] }
    ELSE LET d  == DadosCarregados(cfg, arq)
             sv == CriarSolver(cfg, d)
         IN { [ erro |-> "", retorno |-> "True",
                resultado |-> ExtrairResultado(d, Variaveis(d), VariaveisPedidos(d), s),
                comparativo |->
                    CalcularComparativoDe(d,
                        ExtrairResultado(d, Variaveis(d), VariaveisPedidos(d), s)) ]
              : s \in Viaveis(sv) }
            \cup { [ erro |-> "", retorno |-> "False",
                     resultado |-> ResultadoNone, comparativo |-> ComparativoNone ] }

\* the record the sweep appends for a date (testar_com_realocacao.py lines 69-78)
RegistroDaData(data, comp) ==
    [ data |-> data,
      margem_baseline |-> comp.margem_baseline,
      margem_otimizada |-> comp.margem_otimizada,
      ganho_absoluto |-> comp.ganho_absoluto,
      ganho_percentual |-> comp.ganho_percentual ]

\* testar_modo returned None
StatsNone == [ existe |-> FALSE ]

\* the stats testar_modo returns (testar_modos_operacao.py lines 58-72)
StatsDoModo(cfg, o) ==
    [ existe |-> TRUE,
      atender_pedidos |-> cfg.modelo.atender_pedidos,
      qtd_pedidos |-> EstatisticasTestarModo(o.resultado).qtd_pedidos,
      qtd_excedente |-> EstatisticasTestarModo(o.resultado).qtd_excedente,
      qtd_total |-> EstatisticasTestarModo(o.resultado).qtd_total,
      ganho_absoluto |-> IF o.comparativo.existe THEN o.comparativo.ganho_absoluto ELSE 0 ]

\* the rest of the try block of a run once the model methods are through
AposModelo(e, o) ==
    LET base == [e EXCEPT !.pc = "existe", !.retorno = o.retorno,
                          !.comparativo = o.comparativo]
    IN IF o.erro # "" THEN [base EXCEPT !.erro = o.erro]
       ELSE IF e.tipo = "varredura"
       THEN IF o.retorno = "True" /\ o.comparativo.existe
            THEN IF "estoque" \in ChavesDeDados
                 THEN [base EXCEPT !.comparadas = Append(@, e.k),
                                   !.resultados = Append(@, RegistroDaData(e.k, o.comparativo))]
                 ELSE [base EXCEPT !.comparadas = Append(@, e.k), !.erro = "KeyError"]
            ELSE base
       ELSE IF e.tipo = "modos"
       THEN IF o.retorno = "True" /\ Len(o.resultado.linhas) > 0
            THEN [base EXCEPT !.stats = Append(@, StatsDoModo(e.escrito, o))]
            ELSE base
       ELSE IF o.retorno = "True" THEN [base EXCEPT !.salvou = TRUE] ELSE base

\* after the finally block: the next run of the driver, its summary, or the
\* exception the mode-2 script does not catch
Seguinte(e) ==
    LET f == IF e.tipo = "modos" /\ Len(e.stats) < e.k
             THEN [e EXCEPT !.stats = Append(@, StatsNone)] ELSE e
    IN IF e.tipo = "modo2" /\ e.erro # "" THEN [f EXCEPT !.pc = "abortado"]
       ELSE IF e.k < Len(Roteiro(e.tipo, config))
       THEN [f EXCEPT !.k = e.k + 1, !.pc = "abrir"]
       ELSE [f EXCEPT !.pc = "resumo"]

\* config.yaml is read and adjusted, config_temp.yaml is opened for writing:
\* the file is created, or truncated when it is there
AbrirConfigTemp ==
    \E p \in Processos :
        LET e == execucoes[p]
            ino == IF config_temp.existe THEN config_temp.inode ELSE <<p, e.k>>
        IN /\ e.pc = "abrir"
           /\ config_temp' = [ existe |-> TRUE, inode |-> ino, conteudo |-> ConteudoVazio ]
           /\ execucoes' = [execucoes EXCEPT ![p] =
                 [e EXCEPT !.pc = "gravar", !.fd = ino,
                           !.escrito = Roteiro(e.tipo, config)[e.k],
                           !.modelo = ModeloNone, !.erro = "",
                           !.retorno = "NONE", !.comparativo = ComparativoNone]]
           /\ UNCHANGED varsPrincipal

\* yaml.dump and the close of the with block: the text reaches the inode the
\* driver opened, which is the file only while nobody unlinked it
GravarConfigTemp ==
    \E p \in Processos :
        LET e == execucoes[p]
        IN /\ e.pc = "gravar"
           /\ config_temp' = IF config_temp.existe /\ config_temp.inode = e.fd
                             THEN [config_temp EXCEPT !.conteudo = e.escrito]
                             ELSE config_temp
           /\ execucoes' = [execucoes EXCEPT ![p] = [e EXCEPT !.pc = "construir"]]
           /\ UNCHANGED varsPrincipal

\* ModeloOtimizacaoComRealocacao(config_path='config_temp.yaml'): __init__ reads
\* the file that is there now; open() raises when there is none
ConstruirModelo ==
    \E p \in Processos :
        LET e == execucoes[p]
        IN /\ e.pc = "construir"
           /\ execucoes' = [execucoes EXCEPT ![p] =
                 IF config_temp.existe
                 THEN [e EXCEPT !.pc = "executar",
                                !.modelo = [existe |-> TRUE, config |-> config_temp.conteudo]]
                 ELSE [e EXCEPT !.pc = "existe", !.erro = "FileNotFoundError"]]
           /\ UNCHANGED <<config_temp, varsPrincipal>>

\* carregar_dados, criar_modelo, resolver, calcular_comparativo and what the
\* driver does with the outcome; a model whose config is None raises TypeError
\* at the first self.config[...]
ExecutarModelo ==
    \E p \in Processos :
        LET e == execucoes[p]
        IN /\ e.pc = "executar"
           /\ IF e.modelo.config.vazio
              THEN execucoes' = [execucoes EXCEPT ![p] =
                                    [e EXCEPT !.pc = "existe", !.erro = "TypeError"]]
              ELSE \E o \in ResultadosDoModelo(e.modelo.config.modelo, arquivos) :
                      execucoes' = [execucoes EXCEPT ![p] = AposModelo(e, o)]
           /\ UNCHANGED <<config_temp, varsPrincipal>>

\* finally: if config_temp.exists()
VerificarConfigTemp ==
    \E p \in Processos :
        LET e == execucoes[p]
        IN /\ e.pc = "existe"
           /\ execucoes' = [execucoes EXCEPT ![p] =
                 IF config_temp.existe THEN [e EXCEPT !.pc = "unlink"] ELSE Seguinte(e)]
           /\ UNCHANGED <<config_temp, varsPrincipal>>

\* finally: config_temp.unlink(); it raises when the file is gone by now, and
\* nothing catches that
RemoverConfigTemp ==
    \E p \in Processos :
        LET e == execucoes[p]
        IN /\ e.pc = "unlink"
           /\ IF config_temp.existe
              THEN /\ config_temp' = Ausente
                   /\ execucoes' = [execucoes EXCEPT ![p] = Seguinte(e)]
              ELSE /\ config_temp' = config_temp
                   /\ execucoes' = [execucoes EXCEPT ![p] =
                         [e EXCEPT !.pc = "abortado_no_finally",
                                   !.erro = "FileNotFoundError"]]
           /\ UNCHANGED varsPrincipal

\* the end of the script: the sweep saves its list when it is not empty, the
\* mode test its comparison when both modes returned stats
Resumir ==
    \E p \in Processos :
        LET e == execucoes[p]
        IN /\ e.pc = "resumo"
           /\ execucoes' = [execucoes EXCEPT ![p] =
                 [e EXCEPT !.pc = "fim",
                           !.relatorio =
                               IF e.tipo = "varredura" THEN Len(e.resultados) > 0
                               ELSE IF e.tipo = "modos"
                               THEN \A i \in 1..Len(e.stats) : e.stats[i].existe
                               ELSE FALSE]]
           /\ UNCHANGED <<config_temp, varsPrincipal>>

NextRoteiros ==
    \/ AbrirConfigTemp
    \/ GravarConfigTemp
    \/ ConstruirModelo
    \/ ExecutarModelo
    \/ VerificarConfigTemp
    \/ RemoverConfigTemp
    \/ Resumir

\* the working directory before any driver ran; the model module is not run on
\* its own
InitDiretorio ==
    /\ config \in ConfigsDosRoteiros
    /\ arquivos \in ArquivosDosRoteiros
    /\ anterior = AnteriorNone
    /\ dados = DadosVazio
    /\ solver = SolverNone
    /\ variaveis = <<>>
    /\ variaveis_pedidos = <<>>
    /\ status = "NONE"
    /\ solucao = <<>>
    /\ resultado = ResultadoNone
    /\ retorno = "NONE"
    /\ comparativo = ComparativoNone
    /\ salvo = NadaSalvo
    /\ n_solve = 0
    /\ pc = "fim"
    /\ saida = Executando
    /\ config_temp = Ausente

\* one driver script alone in the working directory
InitSequencial ==
    /\ InitDiretorio
    /\ \E t \in {"varredura", "modos", "modo2"} :
          execucoes = [p \in Processos |-> IF p = 1 THEN Inicio(t) ELSE SemRoteiro]

SpecSequencial == InitSequencial /\ [][NextRoteiros]_vars

\* two driver scripts started in the same working directory, over inputs with
\* one producing class and one unit
InitSobreposicao ==
    /\ InitDiretorio
    /\ arquivos = Arquivo(Presentes, 0, 1, 0, 0, 0, 360, 100, 100)
    /\ config.atender_pedidos /\ config.tipo_objetivo = "maximizar_margem"
    /\ execucoes \in [Processos -> { Inicio(t) : t \in {"varredura", "modos", "modo2"} }]

SpecSobreposicao == InitSobreposicao /\ [][NextRoteiros]_vars

\* ------------------------------------- the methods of one model object
\* a caller that holds one model object and calls its methods in any order
\* after carregar_dados (resolver only once criar_modelo built the solver); pc
\* is the method that returned last
InitObjeto ==
    /\ InitDiretorio
    /\ FontesObrigatorias(arquivos)
    /\ pc = "fim"
    /\ execucoes = [p \in Processos |-> SemRoteiro]

\* modelo.carregar_dados()
ChamarCarregarDados ==
    /\ pc = "fim"
    /\ dados' = DadosCarregados(config, arquivos)
    /\ pc' = "apos_carregar_dados"
    /\ UNCHANGED <<config_temp, execucoes, anterior, config, arquivos, solver, variaveis,
                   variaveis_pedidos, status, solucao, resultado, retorno,
                   comparativo, salvo, n_solve, saida>>

\* a method can be called once carregar_dados returned
ObjetoCarregado ==
    pc \in {"apos_carregar_dados", "apos_criar_modelo", "apos_resolver",
            "apos_calcular_comparativo", "apos_salvar_resultados"}

\* modelo.criar_modelo(): a new solver and new variables; self.resultado is
\* not touched
ChamarCriarModelo ==
    /\ ObjetoCarregado
    /\ solver' = CriarSolver(config, dados)
    /\ variaveis' = Variaveis(dados)
    /\ variaveis_pedidos' = VariaveisPedidos(dados)
    /\ pc' = "apos_criar_modelo"
    /\ UNCHANGED <<config_temp, execucoes, anterior, config, arquivos, dados, status, solucao,
                   resultado, retorno, comparativo, salvo, n_solve, saida>>

\* modelo.resolver(): with a solution the decision table is extracted anew;
\* without one the method returns False and leaves self.resultado as it is
ChamarResolver ==
    /\ ObjetoCarregado
    /\ solver.criado
    /\ n_solve < MaxSolves
    /\ \/ \E st \in {"OPTIMAL", "FEASIBLE"} :
            \E s \in (IF st = "OPTIMAL" THEN Otimas(solver) ELSE Viaveis(solver)) :
               /\ status' = st
               /\ solucao' = s
               /\ resultado' = ExtrairResultado(dados, variaveis, variaveis_pedidos, s)
               /\ retorno' = "True"
       \/ /\ \E st \in StatusSemSolucao(solver) : status' = st
          /\ retorno' = "False"
          /\ UNCHANGED <<solucao, resultado>>
    /\ n_solve' = n_solve + 1
    /\ pc' = "apos_resolver"
    /\ UNCHANGED <<config_temp, execucoes, anterior, config, arquivos, dados, solver, variaveis,
                   variaveis_pedidos, comparativo, salvo, saida>>

\* modelo.calcular_comparativo(): comparativo is what this call returned
ChamarCalcularComparativo ==
    /\ ObjetoCarregado
    /\ comparativo' = CalcularComparativoDe(dados, resultado)
    /\ pc' = "apos_calcular_comparativo"
    /\ UNCHANGED <<config_temp, execucoes, anterior, config, arquivos, dados, solver, variaveis,
                   variaveis_pedidos, status, solucao, resultado, retorno, salvo,
                   n_solve, saida>>

\* modelo.salvar_resultados(): salvo is what this call wrote
ChamarSalvarResultados ==
    /\ ObjetoCarregado
    /\ salvo' = SalvarResultadosDe(dados, resultado)
    /\ pc' = "apos_salvar_resultados"
    /\ UNCHANGED <<config_temp, execucoes, anterior, config, arquivos, dados, solver, variaveis,
                   variaveis_pedidos, status, solucao, resultado, retorno,
                   comparativo, n_solve, saida>>

NextObjeto ==
    \/ ChamarCarregarDados
    \/ ChamarCriarModelo
    \/ ChamarResolver
    \/ ChamarCalcularComparativo
    \/ ChamarSalvarResultados

SpecObjeto == InitObjeto /\ [][NextObjeto]_vars

\* =================================================================== claims
\* quantities read back from the solved program
Resolvido == status \in {"OPTIMAL", "FEASIBLE"}

\* data was loaded and main went on
Carregado ==
    \/ pc \in {"criar_modelo", "resolver", "calcular_comparativo",
               "salvar_resultados", "retornar"}
    \/ pc = "fim" /\ saida.codigo = 0

\* rows of the reconciled base table of one class
UnidadesDaClasse(c) == SelectSeq(dados.base_otimizacao, LAMBDA r : r.classe = c)

\* total production of a class with reconciled units
CapacidadeDaClasse(c) == UnidadesDaClasse(c)[1].producao_total

\* available-for-optimization capacity of a class with reconciled units
PoolDaClasse(c) == UnidadesDaClasse(c)[1].producao_disponivel_otimizacao_classe

\* solved surplus of a class: sum of its unit variables
ExcedenteAlocado(c) ==
    SumOver({ r.item_id : r \in Range(UnidadesDaClasse(c)) } \cap DOMAIN variaveis, solucao)

\* SKUs of a class that have an order variable
SkusComPedido(c) ==
    { it \in DOMAIN variaveis_pedidos :
        ItemIdsDoSku(dados.base_otimizacao, it)[1].classe = c }

\* solved orders of a class: sum of the order variables of its SKUs
PedidosAtendidos(c) ==
    SumOver({ IdPedido(it) : it \in SkusComPedido(c) }, solucao)

\* solved value of the order variable of an item (0 when it has no variable)
QtdAtendida(it) ==
    IF it \in DOMAIN variaveis_pedidos THEN solucao[IdPedido(it)] ELSE 0

ClassesDaBase == Range(ClassesDe(dados.base_otimizacao))

\* ---- C1 (the claim as stated; the code violates it): in every solution the
\* orders plus the surplus allocated in a class do not exceed the class's
\* total production.
C1_CapacityInvariant ==
    Resolvido =>
        \A c \in ClassesDaBase :
            PedidosAtendidos(c) + ExcedenteAlocado(c) <= CapacidadeDaClasse(c)

\* ---- C2 (the claim as stated; the code violates it): with orders fulfilled
\* and margin maximized, the solved order variable of every ordered SKU with a
\* reconciled unit equals min(q, C) and the class surplus is at most
\* C - min(q, C).
C2_OrderProtection ==
    (status = "OPTIMAL" /\ dados.atender_pedidos
       /\ TipoObjetivo(config) = "maximizar_margem") =>
        \A i \in 1..Len(dados.pedidos_por_sku) :
            LET p == dados.pedidos_por_sku[i]
                rows == ItemIdsDoSku(dados.base_otimizacao, p.item)
            IN Len(rows) > 0 =>
                 LET C == rows[1].producao_total
                     q == p.quantidade_total_pedida
                 IN /\ QtdAtendida(p.item) = Min(q, C)
                    /\ ExcedenteAlocado(rows[1].classe) <= C - Min(q, C)

\* distinct SKUs of a class in the reconciled table
SkusDaClasse(c) == { r.item : r \in Range(UnidadesDaClasse(c)) }

\* total ordered quantity of the SKUs of a class, each SKU counted once
TotalPedidoDaClasse(c) ==
    SumOver(SkusDaClasse(c),
            [it \in SkusDaClasse(c) |->
                ItemIdsDoSku(dados.base_otimizacao, it)[1].quantidade_total_pedida])

\* ---- C3 (the claim as stated; the code violates it): with orders fulfilled
\* the capacity available to a class's unit variables is the class's total
\* production minus the total ordered quantity of all its SKUs, floored at 0.
C3_SurplusIsProductionMinusOrders ==
    (Carregado /\ dados.atender_pedidos) =>
        \A c \in ClassesDaBase :
            PoolDaClasse(c) = Max(CapacidadeDaClasse(c) - TotalPedidoDaClasse(c), 0)

\* ---- C4: after loading, the effective optimize_surplus_only equals
\* fulfill_orders for every configured combination, a warning is logged exactly
\* for (false, true), and build, extraction and save only ever see (true, true)
\* or (false, false).
C4_PolicyAutoCorrection ==
    Carregado =>
        /\ dados.atender_pedidos = config.atender_pedidos
        /\ dados.usar_apenas_excedente = config.atender_pedidos
        /\ dados.aviso = (~config.atender_pedidos /\ config.usar_apenas_excedente)
        /\ \A i \in 1..Len(resultado.linhas) :
              resultado.linhas[i].tipo \in
                  (IF config.atender_pedidos THEN {"PEDIDO", "EXCEDENTE"}
                   ELSE {"ESTOQUE_TOTAL"})
        /\ salvo.escrito =>
              salvo.modo_sufixo = (IF config.atender_pedidos THEN "excedente"
                                   ELSE "completo")

\* C4 witness: (false, true) was corrected to (false, false) with a warning and
\* the run saved its result in total-stock mode.
C4_Witness ==
    /\ ~config.atender_pedidos /\ config.usar_apenas_excedente
    /\ salvo.escrito /\ salvo.modo_sufixo = "completo"
    /\ dados.aviso /\ ~dados.usar_apenas_excedente
    /\ Len(resultado.linhas) > 0

\* ---- C5: resolver calls Solve() once and ends in one status; it extracts a
\* decision table and returns True exactly when the status is OPTIMAL or
\* FEASIBLE; otherwise it returns False without extraction and without a retry;
\* a decision table exists only after a solve that ended OPTIMAL or FEASIBLE.
C5_SolveStateMachine ==
    /\ n_solve <= 1
    /\ (n_solve = 0) <=> (retorno = "NONE")
    /\ (n_solve = 0) => (status = "NONE" /\ ~resultado.existe)
    /\ (n_solve = 1) => status \in {"OPTIMAL", "FEASIBLE", "INFEASIBLE",
                                    "NOT_SOLVED", "ABNORMAL"}
    /\ (retorno = "True") <=> (status \in {"OPTIMAL", "FEASIBLE"})
    /\ (retorno = "False") => (~resultado.existe /\ solucao = <<>> /\ ~salvo.escrito)
    /\ resultado.existe <=> (retorno = "True")

\* C5 witness: a solve that stopped at a feasible, non-optimal point still
\* produced a decision table and returned True.
C5_Witness ==
    /\ status = "FEASIBLE" /\ retorno = "True" /\ n_solve = 1
    /\ solucao \notin Otimas(solver)
    /\ resultado.existe /\ Len(resultado.linhas) > 0

\* ---- C6 (the claim as stated; the code violates it): a run whose solve found
\* no solution ends with a failure signal, a raised error or a non-zero exit.
C6_FailureSignal ==
    (saida.terminou /\ retorno = "False") => (saida.codigo # 0 \/ saida.erro # "")

\* ordered quantity of an item
QtdPedida(it) ==
    Lookup(dados.pedidos_por_sku, LAMBDA p : p.item = it,
           LAMBDA p : p.quantidade_total_pedida, 0)

\* ---- C7: with orders fulfilled, every order variable has domain
\* [0, min(ordered, class capacity)] at most, every solution keeps it there, and
\* no order row reports more than was ordered (percent fulfilled <= 100).
C7_OrderVariablesBounded ==
    (Carregado /\ dados.atender_pedidos) =>
        /\ \A it \in DOMAIN variaveis_pedidos :
              LET C == ItemIdsDoSku(dados.base_otimizacao, it)[1].producao_total
                  teto == Min(QtdPedida(it), C)
              IN /\ variaveis_pedidos[it] <= teto
                 /\ Resolvido => (0 <= solucao[IdPedido(it)] /\ solucao[IdPedido(it)] <= teto)
        /\ \A i \in 1..Len(resultado.linhas) :
              resultado.linhas[i].tipo = "PEDIDO" =>
                  /\ resultado.linhas[i].quantidade <= resultado.linhas[i].quantidade_pedida
                  /\ resultado.linhas[i].quantidade_pedida = QtdPedida(resultado.linhas[i].item)
                  /\ resultado.linhas[i].percentual_atendido <= 100

\* C7 witness: an order of 2 in a class whose pool is smaller than the order is
\* served in part (order row below 100 percent).
C7_Witness ==
    /\ Resolvido /\ dados.atender_pedidos
    /\ \E i \in 1..Len(resultado.linhas) :
          /\ resultado.linhas[i].tipo = "PEDIDO"
          /\ resultado.linhas[i].quantidade_pedida >= 2
          /\ resultado.linhas[i].quantidade < resultado.linhas[i].quantidade_pedida

\* ---- C8 (the claim as stated; the code violates it): under cost minimization
\* with orders fulfilled every order variable is solved to its upper bound and
\* the surplus takes only what the orders leave of the class capacity.
C8_OrdersFirstUnderCostMin ==
    (status = "OPTIMAL" /\ dados.atender_pedidos
       /\ TipoObjetivo(config) = "minimizar_custos") =>
        /\ \A it \in DOMAIN variaveis_pedidos :
              solucao[IdPedido(it)] = variaveis_pedidos[it]
        /\ \A c \in ClassesDaBase :
              ExcedenteAlocado(c) <= CapacidadeDaClasse(c) - PedidosAtendidos(c)

\* unit variables of a class
VarsDaClasse(c) ==
    { r \in Range(UnidadesDaClasse(c)) : r.item_id \in DOMAIN variaveis }

\* upper bound of a unit variable: its domain and every ceiling put on it alone
LimiteEfetivo(id) ==
    LET tetos == { r.limite : r \in { x \in solver.restricoes : x.termos = {id} } }
                 \cup {solver.lim[id]}
    IN CHOOSE m \in tetos : \A t \in tetos : m <= t

\* no unit is allocated while a strictly cheaper unit of its class has room
SemFolgaMaisBarata(c) ==
    \A u \in VarsDaClasse(c) : \A v \in VarsDaClasse(c) :
        (solucao[u.item_id] > 0 /\ v.custo_ytd < u.custo_ytd) =>
            solucao[v.item_id] = LimiteEfetivo(v.item_id)

\* ---- C9 (the claim as stated; refuted): under cost minimization every class
\* with a positive pool and a unit variable gets a positive allocation, whatever
\* the unit costs, and no unit is allocated while a cheaper one has room.
C9_CostMinTieBreak_Original ==
    (status = "OPTIMAL" /\ TipoObjetivo(config) = "minimizar_custos") =>
        \A c \in ClassesDaBase :
            (PoolDaClasse(c) > 0 /\ VarsDaClasse(c) # {}) =>
                /\ ExcedenteAlocado(c) > 0
                /\ SemFolgaMaisBarata(c)

\* ---- C9 (amended): under cost minimization every class with a positive pool
\* and a unit variable whose unit cost is below the reward of 200 gets a
\* positive allocation, and in every class no unit is allocated while a
\* strictly cheaper unit of the class is below its upper bound.
C9_CostMinTieBreak ==
    (status = "OPTIMAL" /\ TipoObjetivo(config) = "minimizar_custos") =>
        \A c \in ClassesDaBase :
            (PoolDaClasse(c) > 0 /\ VarsDaClasse(c) # {}) =>
                /\ (\E v \in VarsDaClasse(c) : v.custo_ytd < PesoRecompensa)
                       => ExcedenteAlocado(c) > 0
                /\ SemFolgaMaisBarata(c)

\* C9 witness: the cheapest unit is filled to its ceiling and the rest of the
\* pool goes to the next cheapest unit below the reward.
C9_Witness ==
    /\ status = "OPTIMAL" /\ TipoObjetivo(config) = "minimizar_custos"
    /\ \E c \in ClassesDaBase :
         \E u \in VarsDaClasse(c) : \E v \in VarsDaClasse(c) :
            /\ v.custo_ytd < u.custo_ytd /\ u.custo_ytd < PesoRecompensa
            /\ solucao[u.item_id] > 0 /\ solucao[v.item_id] > 0
            /\ solucao[v.item_id] = LimiteEfetivo(v.item_id)
            /\ LimiteEfetivo(v.item_id) < PoolDaClasse(c)

\* highest unit margin of a class
MaiorMargem(c) ==
    CHOOSE m \in { r.margem_unitaria : r \in Range(UnidadesDaClasse(c)) } :
        \A r \in Range(UnidadesDaClasse(c)) : r.margem_unitaria <= m

\* ---- C10: ignoring orders, maximizing margin, without demand capping, the
\* units of every class with capacity and a reconciled unit receive exactly the
\* class capacity, all of it on maximum-margin units, and the objective value is
\* the sum over classes of capacity times the highest unit margin.
C10_SimpleReallocation ==
    (status = "OPTIMAL" /\ ~dados.atender_pedidos
       /\ TipoObjetivo(config) = "maximizar_margem"
       /\ ~config.considerar_demanda_historica) =>
        /\ \A c \in ClassesDaBase :
              /\ ExcedenteAlocado(c) = CapacidadeDaClasse(c)
              /\ \A r \in Range(UnidadesDaClasse(c)) :
                    solucao[r.item_id] > 0 => r.margem_unitaria = MaiorMargem(c)
        /\ ValorObjetivo(solver, solucao) =
              SumOver(ClassesDaBase,
                      [c \in ClassesDaBase |-> CapacidadeDaClasse(c) * MaiorMargem(c)])

\* C10 witness: a class with a pool of at least 2 and units of different margins
\* has its whole pool on the best unit, and a second class is allocated too.
C10_Witness ==
    /\ status = "OPTIMAL" /\ ~dados.atender_pedidos
    /\ TipoObjetivo(config) = "maximizar_margem"
    /\ ~config.considerar_demanda_historica
    /\ Cardinality(ClassesDaBase) = 2
    /\ \E c \in ClassesDaBase :
          /\ CapacidadeDaClasse(c) >= 2
          /\ \E r \in Range(UnidadesDaClasse(c)) : r.margem_unitaria < MaiorMargem(c)
          /\ \E r \in Range(UnidadesDaClasse(c)) :
                solucao[r.item_id] = CapacidadeDaClasse(c)

\* rows of the decision table that come from unit variables
LinhasDeUnidades == SelectSeq(resultado.linhas, LAMBDA r : r.tipo # "PEDIDO")

\* the SKUs with a historical ceiling
SkusComTeto == { dados.demanda_historica[i].item : i \in 1..Len(dados.demanda_historica) }

\* the ceiling of a SKU of SkusComTeto
TetoDoSku(it) ==
    SelectSeq(dados.demanda_historica, LAMBDA h : h.item = it)[1].demanda_max

\* ---- C11: with demand capping enabled every item_id of a SKU with a ceiling
\* is allocated at most that ceiling (ceilings are positive), and an item_id of
\* a SKU without historical data carries no ceiling constraint: its only limit
\* is the pool of its class.
C11_DemandCeiling ==
    (Resolvido /\ config.considerar_demanda_historica) =>
        /\ \A i \in 1..Len(LinhasDeUnidades) :
              LinhasDeUnidades[i].item \in SkusComTeto =>
                  LinhasDeUnidades[i].quantidade <= TetoDoSku(LinhasDeUnidades[i].item)
        /\ \A id \in DOMAIN variaveis :
              IF id[1] \in SkusComTeto
              THEN /\ TetoDoSku(id[1]) > 0
                   /\ solucao[id] <= TetoDoSku(id[1])
              ELSE LimiteEfetivo(id) =
                        SelectSeq(dados.base_otimizacao,
                                  LAMBDA r : r.item_id = id)[1].producao_disponivel_otimizacao_classe

\* C11 witness: a unit of a capped SKU sits at its ceiling, below the class pool,
\* while a unit of an uncapped SKU of the same class is allocated too.
C11_Witness ==
    /\ Resolvido /\ config.considerar_demanda_historica
    /\ \E i \in 1..Len(LinhasDeUnidades) : \E j \in 1..Len(LinhasDeUnidades) :
          /\ LinhasDeUnidades[i].item \in SkusComTeto
          /\ LinhasDeUnidades[i].quantidade = TetoDoSku(LinhasDeUnidades[i].item)
          /\ LinhasDeUnidades[i].quantidade < LinhasDeUnidades[i].producao_disponivel
          /\ LinhasDeUnidades[j].item \notin SkusComTeto
          /\ LinhasDeUnidades[j].classe = LinhasDeUnidades[i].classe

\* ---- C12: with atender_pedidos = false, whatever the orders, no order
\* variable is created, the pool of every class is its total production (in the
\* base table and in the class constraint), and the decision table has no order
\* row.
C12_ModeBIgnoresOrders ==
    (Carregado /\ ~config.atender_pedidos) =>
        /\ variaveis_pedidos = <<>>
        /\ \A k \in DOMAIN solver.lim : k[2] # "PEDIDO"
        /\ \A c \in ClassesDaBase :
              /\ PoolDaClasse(c) = CapacidadeDaClasse(c)
              /\ solver.criado =>
                    \E r \in solver.restricoes :
                        /\ r.termos = { u.item_id : u \in Range(UnidadesDaClasse(c)) }
                        /\ r.limite = CapacidadeDaClasse(c)
        /\ \A i \in 1..Len(resultado.linhas) : resultado.linhas[i].tipo # "PEDIDO"

\* C12 witness: a SKU of the base table has an order, orders are ignored, and
\* the solve allocated the whole production of its class to unit variables.
C12_Witness ==
    /\ Resolvido /\ ~config.atender_pedidos
    /\ \E c \in ClassesDaBase :
          /\ \E u \in Range(UnidadesDaClasse(c)) : u.quantidade_total_pedida >= CapacidadeDaClasse(c)
          /\ ExcedenteAlocado(c) = CapacidadeDaClasse(c)
          /\ \E i \in 1..Len(resultado.linhas) : resultado.linhas[i].classe = c

\* item_ids of the reconciled base table
IdsDaBase == { dados.base_otimizacao[i].item_id : i \in 1..Len(dados.base_otimizacao) }

\* the base row a decision row refers to: its item_id, or for an order row the
\* first package of the item
UnidadeDaLinha(l) ==
    IF l.tipo = "PEDIDO" THEN ItemIdsDoSku(dados.base_otimizacao, l.item)[1]
    ELSE SelectSeq(dados.base_otimizacao, LAMBDA r : r.item_id = l.item_id)[1]

\* ---- C13: every unit of the reconciled base table has margin > 0, price > 0,
\* cost > 0 and margin = price - cost, and every row of the decision table,
\* order rows included, refers to a base unit and carries its positive margin.
C13_MarginPositivity ==
    /\ \A i \in 1..Len(dados.base_otimizacao) :
          LET r == dados.base_otimizacao[i]
          IN /\ r.margem_unitaria > 0 /\ r.preco > 0 /\ r.custo_ytd > 0
             /\ r.margem_unitaria = r.preco - r.custo_ytd
    /\ \A i \in 1..Len(resultado.linhas) :
          LET l == resultado.linhas[i]
          IN /\ \/ l.tipo = "PEDIDO" /\ ItemIdsDoSku(dados.base_otimizacao, l.item) # <<>>
                \/ l.tipo # "PEDIDO" /\ l.item_id \in IdsDaBase
             /\ l.margem_unitaria = UnidadeDaLinha(l).margem_unitaria
             /\ l.margem_unitaria > 0

\* C13 witness: a priced unit of a producing class was dropped because its cost
\* is not below its price, and the decision table has a unit row and an order row.
C13_Witness ==
    /\ Resolvido
    /\ \E i \in 1..Len(dados.custos) : \E j \in 1..Len(dados.classes) :
          /\ dados.classes[j].item = dados.custos[i].item
          /\ \E k \in 1..Len(dados.producao) :
                dados.producao[k].classe = dados.classes[j].classe
          /\ \E k \in 1..Len(dados.precos) :
                /\ dados.precos[k].item_id = dados.custos[i].item_id
                /\ dados.precos[k].preco <= dados.custos[i].custo_ytd
          /\ dados.custos[i].item_id \notin IdsDaBase
    /\ \E i \in 1..Len(resultado.linhas) : resultado.linhas[i].tipo = "PEDIDO"
    /\ \E i \in 1..Len(resultado.linhas) : resultado.linhas[i].tipo # "PEDIDO"

\* ---- C14: when no class has positive capacity the run goes through without
\* raising: the base table is empty, a solve that returns a solution leaves an
\* empty decision table (a table, not None), calcular_comparativo returns None,
\* salvar_resultados writes the empty table and an empty summary, and main ends
\* normally.
C14_EmptyInput ==
    (Carregado /\ dados.producao = <<>>) =>
        /\ dados.base_otimizacao = <<>>
        /\ retorno = "True" => (resultado.existe /\ resultado.linhas = <<>>)
        /\ pc \in {"salvar_resultados", "retornar", "fim"} => ~comparativo.existe
        /\ (retorno = "True" /\ pc \in {"retornar", "fim"}) =>
              /\ salvo.escrito
              /\ salvo.resultado_detalhado = <<>>
              /\ salvo.resumo_classe = <<>>
        /\ pc = "fim" => (saida.codigo = 0 /\ saida.erro = "")

\* C14 witness: a finished run over a production file without positive
\* quantities, with orders in the input, that saved the empty table.
C14_Witness ==
    /\ pc = "fim" /\ saida.codigo = 0
    /\ dados.producao = <<>> /\ dados.pedidos_por_sku # <<>>
    /\ status = "OPTIMAL" /\ resultado.existe /\ resultado.linhas = <<>>
    /\ salvo.escrito

SemClasse(it) ==
    ~\E i \in 1..Len(arquivos.classes) :
        arquivos.classes[i].item = it /\ arquivos.classes[i].classe # "nan"

\* ---- C16 (the claim as stated; the code violates it): every SKU with a cost
\* row and no class in the mapping belongs to the sentinel class OUTROS in the
\* reconciled data; when OUTROS has production its units are in the base table
\* with that class and its capacity.
C16_UnmappedToSentinel ==
    Carregado =>
        \A i \in 1..Len(dados.custos) :
            SemClasse(dados.custos[i].item) =>
                /\ \E j \in 1..Len(dados.classes) :
                      /\ dados.classes[j].item = dados.custos[i].item
                      /\ dados.classes[j].classe = "OUTROS"
                /\ (\E k \in 1..Len(dados.producao) : dados.producao[k].classe = "OUTROS")
                      => \E b \in Range(dados.base_otimizacao) :
                            /\ b.item_id = dados.custos[i].item_id
                            /\ b.classe = "OUTROS"
                            /\ b.producao_total = CapacidadeDaClasse("OUTROS")

\* price-table entries of one item_id, and of the other packages of its SKU
EntradasDoItemId(id) == SelectSeq(dados.precos, LAMBDA p : p.item_id = id)
EntradasDeOutrasEmbalagens(id) ==
    SelectSeq(dados.precos, LAMBDA p : p.item_id[1] = id[1] /\ p.item_id # id)

\* the mean of the prices of a sequence of price-table entries
PrecoMedio(entradas) ==
    SumSeq([i \in 1..Len(entradas) |-> entradas[i].preco]) \div Len(entradas)

C18_MandatorySources ==
    (~arquivos.producao_existe \/ ~arquivos.custos_existe) =>
        /\ pc \in {"carregar_dados", "fim"}
        /\ dados.base_otimizacao = <<>>
        /\ ~solver.criado /\ variaveis = <<>> /\ variaveis_pedidos = <<>>
        /\ n_solve = 0 /\ ~resultado.existe /\ ~salvo.escrito
        /\ pc = "fim" => (saida.terminou /\ saida.codigo # 0 /\ saida.erro # "")

\* C18 witness: the production file is there, the cost file is not, and the
\* run has ended with the error.
C18_Witness ==
    /\ arquivos.producao_existe /\ ~arquivos.custos_existe
    /\ pc = "fim" /\ saida.erro = "FileNotFoundError" /\ saida.codigo # 0
    /\ dados = DadosVazio

\* cost rows of SKUs whose class has production
CustosComProducao ==
    SelectSeq(dados.custos, LAMBDA cu :
        \E j \in 1..Len(dados.classes) : \E k \in 1..Len(dados.producao) :
            /\ dados.classes[j].item = cu.item
            /\ dados.producao[k].classe = dados.classes[j].classe)

\* ---- C19 (the claim as stated; the code violates it): when the price file is
\* absent the run goes on, every unit of a producing class gets a fallback
\* price > 0, and the base table is not emptied: the units become variables.
C19_AbsentPricesDegrade ==
    (Carregado /\ ~arquivos.precos_existe /\ CustosComProducao # <<>>) =>
        /\ dados.base_otimizacao # <<>>
        /\ \A i \in 1..Len(dados.base_otimizacao) : dados.base_otimizacao[i].preco > 0
        /\ solver.criado => DOMAIN variaveis # {}

\* ---- C20: when the orders file is absent every unit has ordered quantity 0
\* and no order variable exists even with atender_pedidos = true; when capping
\* is enabled and the historical source is absent or cannot be read, the error
\* stays inside the loader, no ceiling constraint is added and the run goes on
\* to build and solve.
C20_AbsentOrdersHistory ==
    /\ (Carregado /\ ~arquivos.pedidos_existe) =>
          /\ dados.pedidos_por_sku = <<>>
          /\ \A i \in 1..Len(dados.base_otimizacao) :
                dados.base_otimizacao[i].quantidade_total_pedida = 0
          /\ variaveis_pedidos = <<>>
          /\ \A k \in DOMAIN solver.lim : k[2] # "PEDIDO"
    /\ (/\ config.considerar_demanda_historica
        /\ ~arquivos.faturamento_existe \/ ~arquivos.faturamento_legivel
        /\ FontesObrigatorias(arquivos)) =>
          /\ pc = "fim" => (saida.codigo = 0 /\ saida.erro = "" /\ n_solve = 1)
          /\ Carregado => dados.demanda_historica = <<>>
          /\ \A id \in DOMAIN variaveis :
                LimiteEfetivo(id) =
                    SelectSeq(dados.base_otimizacao,
                              LAMBDA r : r.item_id = id)[1].producao_disponivel_otimizacao_classe

\* C20 witness: orders file absent with atender_pedidos = true, capping enabled
\* with an unreadable historical source; the solve allocated to a unit of SKU 1
\* more than the ceiling the source holds for it.
C20_Witness ==
    /\ ~arquivos.pedidos_existe /\ config.atender_pedidos
    /\ config.considerar_demanda_historica /\ ~arquivos.faturamento_legivel
    /\ Resolvido /\ pc = "fim"
    /\ \E i \in 1..Len(resultado.linhas) :
          \E j \in 1..Len(arquivos.faturamento) :
              /\ arquivos.faturamento[j].item = resultado.linhas[i].item
              /\ arquivos.faturamento[j].demanda_max > 0
              /\ resultado.linhas[i].quantidade > arquivos.faturamento[j].demanda_max

\* ---- C21 (the claim as stated; the code violates it): every row of the
\* decision table is tagged PEDIDO or EXCEDENTE, so the order quantity plus the
\* surplus quantity of the mode test and of the statistics sheet is the total
\* allocated quantity.
C21_KindTagsPartition ==
    /\ \A i \in 1..Len(resultado.linhas) : resultado.linhas[i].tipo \in TiposRelatados
    /\ (retorno = "True" /\ Len(resultado.linhas) > 0) =>
          LET st == EstatisticasTestarModo(resultado)
          IN st.qtd_pedidos + st.qtd_excedente = st.qtd_total
    /\ salvo.escrito =>
          salvo.estatisticas.qtd_atendida + salvo.estatisticas.qtd_excedente
              = salvo.estatisticas.qtd_total

\* classes of the production table that have a reconciled unit
ClassesComProducaoEUnidades ==
    { dados.producao[k].classe : k \in 1..Len(dados.producao) } \cap ClassesDaBase

\* sum of a column of the decision table
TotalMargemOtimizada ==
    SumSeq([i \in 1..Len(resultado.linhas) |-> resultado.linhas[i].margem_total])
TotalCustoOtimizado ==
    SumSeq([i \in 1..Len(resultado.linhas) |-> resultado.linhas[i].custo_total])

\* unit margins and unit costs of the reconciled units of a class
MargensDaClasse(c) ==
    [i \in 1..Len(UnidadesDaClasse(c)) |-> UnidadesDaClasse(c)[i].margem_unitaria]
CustosDaClasse(c) ==
    [i \in 1..Len(UnidadesDaClasse(c)) |-> UnidadesDaClasse(c)[i].custo_ytd]

\* the mean of one, two, three or six values, in sixths: each value weighs
\* 6 / n sixths
MediaExata6(vals) ==
    IF 6 % Len(vals) = 0 THEN (6 \div Len(vals)) * SumSeq(vals) ELSE NaN

\* pct is 100 * valor / base rounded down, or 0 when base is not positive
PercentualCerto(pct, valor, base) ==
    IF base > 0
    THEN pct * base <= 100 * valor /\ 100 * valor < (pct + 1) * base
    ELSE pct = 0

\* ---- C22: calcular_comparativo returns a comparison exactly for a non-empty
\* decision table; its margin baseline is the sum over the producing classes
\* with reconciled units of production times the mean unit margin of the class,
\* its cost baseline the same with the unit cost, the gain is optimized minus
\* baseline margin, the reduction baseline minus optimized cost, and each
\* percentage is 100 times the absolute value over its baseline (0 for a
\* baseline that is not positive).  Money is compared in sixths of a unit.
C22_ComparatorBaseline ==
    /\ (pc \in {"salvar_resultados", "retornar", "fim"} /\ retorno = "True") =>
          (comparativo.existe <=> Len(resultado.linhas) > 0)
    /\ comparativo.existe =>
             /\ comparativo.margem_baseline =
                   SumOver(ClassesComProducaoEUnidades,
                           [c \in ClassesComProducaoEUnidades |->
                               CapacidadeDaClasse(c) * MediaExata6(MargensDaClasse(c))])
             /\ comparativo.custo_baseline =
                   SumOver(ClassesComProducaoEUnidades,
                           [c \in ClassesComProducaoEUnidades |->
                               CapacidadeDaClasse(c) * MediaExata6(CustosDaClasse(c))])
             /\ comparativo.margem_otimizada = 6 * TotalMargemOtimizada
             /\ comparativo.custo_otimizado = 6 * TotalCustoOtimizado
             /\ comparativo.ganho_absoluto =
                   comparativo.margem_otimizada - comparativo.margem_baseline
             /\ comparativo.reducao_custo =
                   comparativo.custo_baseline - comparativo.custo_otimizado
             /\ PercentualCerto(comparativo.ganho_percentual,
                                comparativo.ganho_absoluto, comparativo.margem_baseline)
             /\ PercentualCerto(comparativo.reducao_custo_pct,
                                comparativo.reducao_custo, comparativo.custo_baseline)

\* C22 witness: two producing classes enter the baseline, one of them with units
\* of different margins, and the optimized margin is below the baseline.
C22_Witness ==
    /\ comparativo.existe
    /\ Cardinality(ClassesComProducaoEUnidades) = 2
    /\ \E c \in ClassesComProducaoEUnidades :
          /\ CapacidadeDaClasse(c) >= 2
          /\ \E i \in 1..Len(MargensDaClasse(c)) :
                MargensDaClasse(c)[i] # MargensDaClasse(c)[1]
    /\ comparativo.ganho_absoluto < 0
    /\ comparativo.ganho_percentual < 0
    /\ comparativo.reducao_custo > 0

\* item_ids of the reconciled units of a class
IdsDaClasse(c) == { r.item_id : r \in Range(UnidadesDaClasse(c)) }

\* the assignment that gives the whole pool of its class to one unit variable
\* and 0 to every other variable of the program
TudoNaUnidade(id, pool) == [k \in DOMAIN solver.lim |-> IF k = id THEN pool ELSE 0]

\* ---- C23: a unit variable exists exactly for the reconciled item_ids of the
\* classes with a positive pool; its domain is [0, pool of its class]; each such
\* class has one constraint, the sum of its unit variables <= pool, and no other
\* constraint joins unit variables; so a unit without a ceiling of its own may
\* take the whole pool, every solution keeps the class sum within the pool, and
\* the units of a class with pool 0 have no variable and no row.
C23_ClassPooling ==
    solver.criado =>
        /\ DOMAIN variaveis =
              { r.item_id : r \in { x \in Range(dados.base_otimizacao) :
                                      x.producao_disponivel_otimizacao_classe > 0 } }
        /\ \A c \in ClassesDaBase :
              IF PoolDaClasse(c) > 0
              THEN /\ \A id \in IdsDaClasse(c) :
                         /\ variaveis[id] = PoolDaClasse(c)
                         /\ solver.lim[id] = PoolDaClasse(c)
                         /\ LimiteEfetivo(id) = PoolDaClasse(c) =>
                               TudoNaUnidade(id, PoolDaClasse(c)) \in Viaveis(solver)
                   /\ Cardinality({ r \in solver.restricoes :
                                      r.termos = IdsDaClasse(c) /\ r.limite = PoolDaClasse(c) }) = 1
                   /\ Resolvido => ExcedenteAlocado(c) <= PoolDaClasse(c)
              ELSE /\ IdsDaClasse(c) \cap DOMAIN variaveis = {}
                   /\ \A i \in 1..Len(LinhasDeUnidades) : LinhasDeUnidades[i].classe # c
        /\ \A r \in solver.restricoes :
              (r.termos \subseteq DOMAIN variaveis /\ Cardinality(r.termos) > 1) =>
                  \E c \in ClassesDaBase : r.termos = IdsDaClasse(c)

\* C23 witness: a class of three units with a pool of at least 2, each variable
\* with the pool as upper bound, and a solution that puts the whole pool on one
\* of them.
C23_Witness ==
    /\ Resolvido
    /\ \E c \in ClassesDaBase :
          /\ PoolDaClasse(c) >= 2 /\ Cardinality(IdsDaClasse(c)) = 3
          /\ \A id \in IdsDaClasse(c) : variaveis[id] = PoolDaClasse(c)
          /\ \E id \in IdsDaClasse(c) : solucao[id] = PoolDaClasse(c)

\* ---- C24 (the claim as stated; the code violates it): every run of a driver
\* builds its model from the configuration this run wrote, and while a run still
\* has to read config_temp.yaml no other run overwrites or removes it, also when
\* two drivers overlap in one working directory.
C24_IsolatedConfig ==
    \A p \in Processos :
        /\ execucoes[p].modelo.existe => execucoes[p].modelo.config = execucoes[p].escrito
        /\ execucoes[p].pc = "construir" =>
              (config_temp.existe /\ config_temp.conteudo = execucoes[p].escrito)
        /\ execucoes[p].pc # "abortado_no_finally"

\* ---- C25 (the claim as stated; the code violates it): in a sweep every date
\* whose run solved and yielded a comparison has exactly one record in the
\* result list, with that date and the margins and gain of its comparison, and
\* config_temp.yaml is gone before the next date starts.
C25_SweepRecordsSolvedDates ==
    \A p \in Processos :
        execucoes[p].tipo = "varredura" =>
            /\ [i \in 1..Len(execucoes[p].resultados) |-> execucoes[p].resultados[i].data]
                  = execucoes[p].comparadas
            /\ (execucoes[p].pc = "existe" /\ execucoes[p].comparativo.existe) =>
                  /\ execucoes[p].resultados # <<>>
                  /\ execucoes[p].resultados[Len(execucoes[p].resultados)] =
                        RegistroDaData(execucoes[p].k, execucoes[p].comparativo)
            /\ execucoes[p].pc = "abrir" => ~config_temp.existe

\* ---- C26 (the claim as stated; the code violates it): on one model object,
\* calcular_comparativo returns a comparison and salvar_resultados writes
\* output only if the most recent resolver call returned True; before any
\* solve, or after a resolver call that returned False, the one returns None
\* and the other writes nothing.
C26_TableFollowsLastSolve ==
    /\ (pc = "apos_calcular_comparativo" /\ comparativo.existe) => retorno = "True"
    /\ (pc = "apos_salvar_resultados" /\ salvo.escrito) => retorno = "True"

\* the assignment that sets every variable of the program to 0
AtribuicaoNula(sv) == [k \in DOMAIN sv.lim |-> 0]

\* ---- C27: whatever the input, the flags and the ceilings, the assignment
\* that sets every order variable and every unit variable to 0 satisfies all
\* bounds and all constraints of the built program, so Solve() never ends
\* INFEASIBLE: a solve without solution is a time limit or a solver error.
C27_EveryModelFeasible ==
    solver.criado =>
        /\ AtribuicaoNula(solver) \in Viaveis(solver)
        /\ \A k \in DOMAIN solver.lim : solver.lim[k] >= 0
        /\ \A r \in solver.restricoes : r.limite >= 0
        /\ status # "INFEASIBLE"

\* a program with order variables, class pools and demand ceilings whose
\* solve ended without a solution
C27_Witness ==
    /\ solver.criado
    /\ DOMAIN variaveis_pedidos # {}
    /\ RestricoesDemanda(config, dados, variaveis) # {}
    /\ RestricoesClasse(dados, variaveis) # {}
    /\ status \in {"NOT_SOLVED", "ABNORMAL"}
    /\ retorno = "False"

\* the quantity the unit variables of a SKU carry in the solution, summed over
\* the SKU's item_ids
TotalDoSku(it) ==
    SumOver({ id \in DOMAIN variaveis : id[1] = it }, solucao)

\* ---- C28 (the claim as stated; the code violates it): with demand capping
\* enabled, for every SKU that has a ceiling the quantity allocated to the SKU,
\* summed over all its item_ids, does not exceed the ceiling.
C28_CeilingOnSkuTotal ==
    (Resolvido /\ config.considerar_demanda_historica) =>
        \A it \in SkusComTeto : TotalDoSku(it) <= TetoDoSku(it)

\* the input has no orders: the orders table is absent or has no positive row
SemPedidos == CarregarPedidos(arquivos) = <<>>

\* the configuration and the loaded data of a run of the other mode on the
\* same inputs, objective and ceilings
OutroModo == [config EXCEPT !.atender_pedidos = ~config.atender_pedidos]
DadosOutroModo == DadosCarregados(OutroModo, arquivos)

\* the rows of a decision table without their kind tag
SemTipo(res) ==
    [i \in 1..Len(res.linhas) |-> [res.linhas[i] EXCEPT !.tipo = ""]]

\* ---- C29: with no orders in the input, a run with atender_pedidos = true and
\* a run with atender_pedidos = false on the same inputs, objective and
\* ceilings build the same variables, bounds, constraints and objective, so
\* every solution of the one is a solution of the other with the same
\* objective value and the same decision rows; only the kind tag may differ.
C29_ModesCoincideWithoutOrders ==
    (Carregado /\ SemPedidos) =>
        LET o == DadosOutroModo
        IN /\ o.base_otimizacao = dados.base_otimizacao
           /\ Variaveis(o) = Variaveis(dados)
           /\ VariaveisPedidos(o) = <<>> /\ VariaveisPedidos(dados) = <<>>
           /\ CriarSolver(OutroModo, o) = CriarSolver(config, dados)
           /\ solver.criado => solver = CriarSolver(OutroModo, o)
           /\ Resolvido =>
                 LET r == ExtrairResultado(o, Variaveis(o), VariaveisPedidos(o), solucao)
                 IN /\ SemTipo(r) = SemTipo(resultado)
                    /\ ValorObjetivo(CriarSolver(OutroModo, o), solucao)
                           = ValorObjetivo(solver, solucao)
                    /\ \A i \in 1..Len(r.linhas) : r.linhas[i].tipo = TipoAlocacao(o)

\* a solved run on an empty orders table with ceilings whose decision rows
\* carry another tag in the other mode
C29_Witness ==
    /\ Carregado /\ SemPedidos /\ Resolvido
    /\ arquivos.pedidos_existe
    /\ config.considerar_demanda_historica /\ dados.demanda_historica # <<>>
    /\ Len(resultado.linhas) > 0
    /\ TipoAlocacao(DadosOutroModo) # TipoAlocacao(dados)

\* a run of mode B that maximizes the margin without demand capping and whose
\* comparator returned a comparison
ComparativoDoModoB ==
    /\ ~config.atender_pedidos
    /\ config.tipo_objetivo = "maximizar_margem"
    /\ ~config.considerar_demanda_historica
    /\ comparativo.existe

====
